---------------------------- MODULE Spec2Model ----------------------------
(***************************************************************************)
(* A model of input-simulation.py: the action mini-language parsers, the   *)
(* mouse / keyboard / input executors and the cross-process lock that      *)
(* wraps them.                                                             *)
(*                                                                         *)
(* Strings are sequences of one-character strings, so that split, upper,   *)
(* isdigit, int and float are computed as Python computes them.  Times are *)
(* integers in milliseconds (0.025 s = 25); a confidence is in thousandths *)
(* (0.8 = 800).                                                            *)
(***************************************************************************)
EXTENDS Integers, Sequences, FiniteSets, TLC

(***************************************************************************)
(* Characters and Python's string primitives                               *)
(***************************************************************************)
LowerAlpha ==
  <<"a","b","c","d","e","f","g","h","i","j","k","l","m",
    "n","o","p","q","r","s","t","u","v","w","x","y","z">>

UpperAlpha ==
  <<"A","B","C","D","E","F","G","H","I","J","K","L","M",
    "N","O","P","Q","R","S","T","U","V","W","X","Y","Z">>

DigitChars == <<"0","1","2","3","4","5","6","7","8","9">>

IsDigitChar(c) == \E k \in 1..10 : DigitChars[k] = c

DigitVal(c) == (CHOOSE k \in 1..10 : DigitChars[k] = c) - 1

\* str.upper() on one character
UpperChar(c) ==
  IF \E k \in 1..26 : LowerAlpha[k] = c
  THEN UpperAlpha[CHOOSE k \in 1..26 : LowerAlpha[k] = c]
  ELSE c

\* str.lower() on one character
LowerChar(c) ==
  IF \E k \in 1..26 : UpperAlpha[k] = c
  THEN LowerAlpha[CHOOSE k \in 1..26 : UpperAlpha[k] = c]
  ELSE c

\* str.upper()
Upper(s) == [k \in 1..Len(s) |-> UpperChar(s[k])]

\* str.lower()
Lower(s) == [k \in 1..Len(s) |-> LowerChar(s[k])]

\* str.isdigit(): non-empty and every character a digit
IsDigit(s) == Len(s) > 0 /\ \A k \in 1..Len(s) : IsDigitChar(s[k])

\* s[1:]
Tail1(s) == IF Len(s) = 0 THEN <<>> ELSE SubSeq(s, 2, Len(s))

\* str.startswith(c) for a one-character prefix
StartsWith(s, c) == Len(s) > 0 /\ s[1] = c

\* the value of a string of digits
RECURSIVE DigitsValue(_)
DigitsValue(s) ==
  IF Len(s) = 0 THEN 0
  ELSE DigitsValue(SubSeq(s, 1, Len(s) - 1)) * 10 + DigitVal(s[Len(s)])

\* int(s): an optional sign, then digits; anything else raises ValueError
PyInt(s) ==
  LET body == IF StartsWith(s, "+") \/ StartsWith(s, "-") THEN Tail1(s) ELSE s
  IN  IF IsDigit(body)
      THEN [ok |-> TRUE,
            v  |-> IF StartsWith(s, "-") THEN 0 - DigitsValue(body)
                   ELSE DigitsValue(body)]
      ELSE [ok |-> FALSE, v |-> 0]

\* index of the first occurrence of character c in s, 0 when there is none
FirstIndex(s, c) ==
  IF \E k \in 1..Len(s) : s[k] = c
  THEN CHOOSE k \in 1..Len(s) : s[k] = c /\ \A m \in 1..(k - 1) : s[m] # c
  ELSE 0

\* str.split(sep) for a one-character separator: always at least one field
RECURSIVE SplitOn(_, _)
SplitOn(s, sep) ==
  LET k == FirstIndex(s, sep)
  IN  IF k = 0 THEN <<s>>
      ELSE <<SubSeq(s, 1, k - 1)>> \o SplitOn(SubSeq(s, k + 1, Len(s)), sep)

\* str.split(sep, 1): split on the first separator only
SplitFirst(s, sep) ==
  LET k == FirstIndex(s, sep)
  IN  IF k = 0 THEN <<s>>
      ELSE <<SubSeq(s, 1, k - 1), SubSeq(s, k + 1, Len(s))>>

NonEmpty(s) == Len(s) > 0

\* str.split(): split on runs of blanks, no empty fields
SplitWs(s) == SelectSeq(SplitOn(s, " "), NonEmpty)

\* the fraction digits of a float literal in milliseconds: "5" -> 500
FracMillis(f) ==
  LET d(k) == IF k <= Len(f) THEN DigitVal(f[k]) ELSE 0
  IN  d(1) * 100 + d(2) * 10 + d(3)

\* the value of the literal with integer digits ip and fraction digits fp
FloatOf(neg, ip, fp) ==
  IF (ip = <<>> \/ IsDigit(ip)) /\ (fp = <<>> \/ IsDigit(fp))
       /\ (ip # <<>> \/ fp # <<>>)
  THEN [ok |-> TRUE,
        v  |-> IF neg THEN 0 - (DigitsValue(ip) * 1000 + FracMillis(fp))
               ELSE DigitsValue(ip) * 1000 + FracMillis(fp)]
  ELSE [ok |-> FALSE, v |-> 0]

FloatOfParts(neg, parts) ==
  IF Len(parts) > 2 THEN [ok |-> FALSE, v |-> 0]
  ELSE FloatOf(neg, parts[1], IF Len(parts) = 2 THEN parts[2] ELSE <<>>)

\* a float() that drops the sign
PyFloatUnsigned(s) ==
  FloatOfParts(FALSE,
               SplitOn(IF StartsWith(s, "+") \/ StartsWith(s, "-")
                       THEN Tail1(s) ELSE s, "."))

\* float(s), in milliseconds: [sign] digits [. digits]; anything else raises
\* ValueError
PyFloat(s) ==
  FloatOfParts(StartsWith(s, "-"),
               SplitOn(IF StartsWith(s, "+") \/ StartsWith(s, "-")
                       THEN Tail1(s) ELSE s, "."))

(***************************************************************************)
(* Constants of the program                                                *)
(***************************************************************************)
MIN_TYPING_INTERVAL == 25

DEFAULT_SLEEP_TIME == 0

DEFAULT_DURATION == 0

DEFAULT_DOUBLECLICK_INTERVAL == 100

DEFAULT_CONFIDENCE == 800

DEFAULT_GRAYSCALE == TRUE

DEFAULT_TYPING_INTERVAL == 50

DEFAULT_PRESS_INTERVAL == 0

\* the members of MouseAction and KeyboardAction (str enums: a member
\* compares equal to its string)
SLEEP == <<"S","L","E","E","P">>
S == <<"S">>
LEFT == <<"L","E","F","T">>
L == <<"L">>
RIGHT == <<"R","I","G","H","T">>
R == <<"R">>
MIDDLE == <<"M","I","D","D","L","E">>
W == <<"W">>
DOUBLELEFT == <<"D","O","U","B","L","E","L","E","F","T">>
LL == <<"L","L">>
MOVE == <<"M","O","V","E">>
M == <<"M">>
KEY == <<"K","E","Y">>
K == <<"K">>
TYPE == <<"T","Y","P","E">>
T == <<"T">>
TYPEFILE == <<"T","Y","P","E","F","I","L","E">>
TF == <<"T","F">>

\* ActionType
MOUSE == "MOUSE"
KEYBOARD == "KEYBOARD"

MOUSE_ACTIONS_DICT ==
  (L :> LEFT) @@ (R :> RIGHT) @@ (W :> MIDDLE) @@ (LL :> DOUBLELEFT)
    @@ (M :> MOVE) @@ (S :> SLEEP)

MOUSE_ACTIONS_LIST ==
  (DOMAIN MOUSE_ACTIONS_DICT)
    \cup {MOUSE_ACTIONS_DICT[a] : a \in DOMAIN MOUSE_ACTIONS_DICT}

MOUSE_CLICK_ACTIONS_LIST == MOUSE_ACTIONS_LIST \ {M, MOVE, S, SLEEP}

MOUSE_SLEEP_ACTIONS_LIST == {S, SLEEP}

KEYBOARD_ACTIONS_LIST == {KEY, K, TYPE, T, TYPEFILE, TF, SLEEP, S}

KEYBOARD_SLEEP_ACTIONS_LIST == {S, SLEEP}

KEYBOARD_KEY_ACTIONS_LIST == {K, KEY}

KEYBOARD_TYPE_ACTIONS_LIST == {T, TYPE}

KEYBOARD_TYPEFILE_ACTIONS_LIST == {TF, TYPEFILE}

\* BTN_MAPPING: the pyautogui button of each click action
BTN_MAPPING ==
  (DOUBLELEFT :> "left") @@ (LEFT :> "left") @@ (RIGHT :> "right")
    @@ (MIDDLE :> "middle")

(***************************************************************************)
(* Values held in an action's args tuple.  Python tells an absolute        *)
(* coordinate (int) from a relative one (str) by its type, so each value   *)
(* carries its type.                                                       *)
(***************************************************************************)
IntV(n) == [t |-> "int", v |-> n]

StrV(s) == [t |-> "str", v |-> s]

FloatV(ms) == [t |-> "float", v |-> ms]

\* the outcome of a validation or of parsing one token: a value, or ValueError
Ok(x) == [ok |-> TRUE, v |-> x]

ValueError == [ok |-> FALSE, v |-> <<>>]

(***************************************************************************)
(* The file system as the parsers see it: the working directory and the    *)
(* set of paths that are regular files                                     *)
(***************************************************************************)
Cwd == <<"/","w">>

\* os.path.abspath for the paths of the model (no "..", no "~")
AbsPath(path) ==
  IF StartsWith(path, "/") THEN path
  ELSE IF Len(path) = 0 THEN Cwd
  ELSE Cwd \o <<"/">> \o path

\* os.path.join(directory, path)
PathJoin(directory, path) ==
  IF StartsWith(path, "/") THEN path
  ELSE IF Len(directory) > 0 /\ directory[Len(directory)] = "/"
       THEN directory \o path
  ELSE directory \o <<"/">> \o path

(***************************************************************************)
(* Validations                                                             *)
(***************************************************************************)
validate_mouse_action(action) ==
  LET action_validated == Upper(action)
  IN  IF action_validated \in MOUSE_ACTIONS_LIST
      THEN Ok(IF action_validated \in DOMAIN MOUSE_ACTIONS_DICT
              THEN MOUSE_ACTIONS_DICT[action_validated]
              ELSE action_validated)
      ELSE ValueError

validate_keyboard_action(action) ==
  LET action_validated == Upper(action)
  IN  IF action_validated \in KEYBOARD_ACTIONS_LIST
      THEN Ok(action_validated)
      ELSE ValueError

\* directory = <<>> stands for None (and for "", which is falsy too)
validate_file_path(path, directory, files) ==
  LET full == IF Len(directory) > 0
              THEN PathJoin(AbsPath(directory), path)
              ELSE AbsPath(path)
  IN  IF full \in files THEN Ok(full) ELSE ValueError

validate_coordinate(coord) ==
  IF IsDigit(coord) THEN Ok(IntV(PyInt(coord).v))
  ELSE IF (StartsWith(coord, "+") \/ StartsWith(coord, "-"))
          /\ IsDigit(Tail1(coord))
       THEN Ok(StrV(coord))
  ELSE ValueError

validate_coordinates(x, y) ==
  LET vx == validate_coordinate(x)
      vy == validate_coordinate(y)
  IN  IF vx.ok /\ vy.ok THEN Ok(<<vx.v, vy.v>>) ELSE ValueError

check_coordinate_format(coord) ==
  IsDigit(coord)
    \/ ((StartsWith(coord, "+") \/ StartsWith(coord, "-"))
        /\ IsDigit(Tail1(coord)))

(***************************************************************************)
(* parse_mouse_actions                                                     *)
(***************************************************************************)
\* an action as the parsers return it: the tuple (action, args)
Act(action, args) == [action |-> action, args |-> args]

\* one field: a click keyword as written (the test does not fold case), or
\* else an image to move to
MouseOnePart(parts, images_path, files) ==
  IF parts[1] \in MOUSE_CLICK_ACTIONS_LIST
  THEN LET a == validate_mouse_action(parts[1])
       IN  IF a.ok THEN Ok(Act(a.v, <<>>)) ELSE ValueError
  ELSE LET f == validate_file_path(parts[1], images_path, files)
       IN  IF f.ok THEN Ok(Act(MOVE, <<StrV(f.v)>>)) ELSE ValueError

\* two fields: S,seconds / x,y / btn,image_path
MouseTwoParts(parts, images_path, files) ==
  IF Upper(parts[1]) \in MOUSE_SLEEP_ACTIONS_LIST
  THEN LET seconds == PyFloat(parts[2])
       IN  IF seconds.ok /\ ~(seconds.v < 0)
           THEN Ok(Act(SLEEP, <<FloatV(seconds.v)>>))
           ELSE ValueError
  ELSE IF check_coordinate_format(parts[1])
  THEN LET c == validate_coordinates(parts[1], parts[2])
       IN  IF c.ok THEN Ok(Act(MOVE, c.v)) ELSE ValueError
  ELSE LET a == validate_mouse_action(parts[1])
           f == validate_file_path(parts[2], images_path, files)
       IN  IF a.ok /\ f.ok THEN Ok(Act(a.v, <<StrV(f.v)>>)) ELSE ValueError

\* three fields: btn,x,y or M,x,y
MouseThreeParts(parts) ==
  LET a == validate_mouse_action(parts[1])
      c == validate_coordinates(parts[2], parts[3])
  IN  IF a.ok /\ c.ok THEN Ok(Act(a.v, c.v)) ELSE ValueError

\* the body of the loop of parse_mouse_actions for one item
MouseParts(parts, images_path, files) ==
  CASE Len(parts) = 1 -> MouseOnePart(parts, images_path, files)
    [] Len(parts) = 2 -> MouseTwoParts(parts, images_path, files)
    [] Len(parts) = 3 -> MouseThreeParts(parts)
    [] OTHER -> ValueError

ParseMouseToken(action_tuple, images_path, files) ==
  CHOOSE r \in {MouseParts(parts, images_path, files) :
                  parts \in {SplitOn(action_tuple, ",")}} : TRUE

\* the outcome of a parser: the action list, or the way the process ended
\* ("exit1": logged and exit(1); "crash": an exception nobody catches)
Parsed(actions) == [status |-> "ok", actions |-> actions]

ParseFailed(how) == [status |-> how, actions |-> <<>>]

\* the outcome of parsing one item: "ok" with what it stands for, "exit1"
\* for a ValueError (caught, logged, exit(1)), "crash" for an exception that
\* nothing catches
TokenOk(a) == [status |-> "ok", v |-> a]

TokenFailed(how) == [status |-> how, v |-> <<>>]

\* a loop that would put each action in front of the ones before it
CollectReversed(results) ==
  IF \A k \in 1..Len(results) : results[k].status = "ok"
  THEN Parsed([k \in 1..Len(results) |-> results[Len(results) + 1 - k].v])
  ELSE ParseFailed("exit1")

\* a loop that would skip the items that fail and return the others
CollectValid(results) ==
  Parsed([k \in 1..Len(SelectSeq(results, LAMBDA r : r.status = "ok")) |->
            SelectSeq(results, LAMBDA r : r.status = "ok")[k].v])

\* the loop of a parser over the outcomes of its items: each item appends
\* its action, the first item that fails ends the process and nothing is
\* returned
CollectActions(results) ==
  IF \A k \in 1..Len(results) : results[k].status = "ok"
  THEN Parsed([k \in 1..Len(results) |-> results[k].v])
  ELSE ParseFailed(
         results[CHOOSE k \in 1..Len(results) :
                   /\ results[k].status # "ok"
                   /\ \A m \in 1..(k - 1) : results[m].status = "ok"].status)

\* a ValueError in parse_mouse_actions is caught (lines 383-385)
MouseItemOutcome(r) == IF r.ok THEN TokenOk(r.v) ELSE TokenFailed("exit1")

MouseItemOutcomes(items, images_path, files) ==
  [k \in 1..Len(items) |->
     CHOOSE o \in {MouseItemOutcome(r) :
                     r \in {ParseMouseToken(items[k], images_path, files)}} :
       TRUE]

parse_mouse_actions(actions_str, images_path, files) ==
  CHOOSE r \in {CollectActions(results) :
                  results \in {MouseItemOutcomes(SplitWs(actions_str),
                                                 images_path, files)}} : TRUE

(***************************************************************************)
(* shlex.split (posix): blanks separate items, a quoted run is kept whole  *)
(* and loses its quotes, an unclosed quote raises ValueError               *)
(***************************************************************************)
IsQuoteChar(c) == c = "'" \/ c = "\""

\* the scanner's state after character c: the item in progress (cur, and
\* inToken: whether there is one), the open quote, the items so far
ShlexStep(c, cur, inToken, quote, out) ==
  IF quote # ""
  THEN IF c = quote
       THEN [cur |-> cur, inToken |-> TRUE, quote |-> "", out |-> out]
       ELSE [cur |-> Append(cur, c), inToken |-> TRUE, quote |-> quote,
             out |-> out]
  ELSE IF c = " "
  THEN [cur |-> <<>>, inToken |-> FALSE, quote |-> "",
        out |-> IF inToken THEN Append(out, cur) ELSE out]
  ELSE IF IsQuoteChar(c)
  THEN [cur |-> cur, inToken |-> TRUE, quote |-> c, out |-> out]
  ELSE [cur |-> Append(cur, c), inToken |-> TRUE, quote |-> "", out |-> out]

RECURSIVE ShlexScan(_, _, _)
ShlexScan(s, k, st) ==
  IF k > Len(s)
  THEN IF st.quote # "" THEN ValueError
       ELSE Ok(IF st.inToken THEN Append(st.out, st.cur) ELSE st.out)
  ELSE CHOOSE r \in {ShlexScan(s, k + 1,
                                ShlexStep(s[k], t.cur, t.inToken, t.quote,
                                          t.out)) : t \in {st}} : TRUE

ShlexSplit(s) ==
  ShlexScan(s, 1, [cur |-> <<>>, inToken |-> FALSE, quote |-> "", out |-> <<>>])

(***************************************************************************)
(* parse_keyboard_actions                                                  *)
(***************************************************************************)
\* the value of a list of strings in an args tuple
ListV(xs) == [t |-> "list", v |-> xs]

KeyboardSleepItem(args) ==
  LET seconds == PyFloat(args)
  IN  IF seconds.ok /\ ~(seconds.v < 0)
      THEN TokenOk(Act(SLEEP, <<FloatV(seconds.v)>>))
      ELSE TokenFailed("exit1")

KeyItemOf(keys, presses) ==
  IF presses.ok THEN TokenOk(Act(KEY, <<ListV(keys), IntV(presses.v)>>))
  ELSE TokenFailed("exit1")

\* a KEY item whose keys keep the case they were written in
KeyItemKeepingCase(fields) ==
  KeyItemOf(SplitOn(fields[1], "+"),
            IF Len(fields) = 1 THEN Ok(1) ELSE PyInt(fields[2]))

KeyItemOfFields(fields) ==
  KeyItemOf(SplitOn(Lower(fields[1]), "+"),
            IF Len(fields) = 1 THEN Ok(1) ELSE PyInt(fields[2]))

KeyboardKeyItem(args) ==
  CHOOSE r \in {KeyItemOfFields(fields) : fields \in {SplitOn(args, ",")}} :
    TRUE

KeyboardTypeFileItem(args, files_path, files) ==
  LET f == validate_file_path(args, files_path, files)
  IN  IF f.ok THEN TokenOk(Act(TYPEFILE, <<StrV(f.v)>>))
      ELSE TokenFailed("exit1")

\* lines 410-428: the action the first field names, with the rest as args
KeyboardItem(action, args, files_path, files) ==
  CASE action \in KEYBOARD_SLEEP_ACTIONS_LIST -> KeyboardSleepItem(args)
    [] action \in KEYBOARD_KEY_ACTIONS_LIST -> KeyboardKeyItem(args)
    [] action \in KEYBOARD_TYPE_ACTIONS_LIST ->
         TokenOk(Act(TYPE, <<StrV(args)>>))
    [] action \in KEYBOARD_TYPEFILE_ACTIONS_LIST ->
         KeyboardTypeFileItem(args, files_path, files)
    [] OTHER -> TokenFailed("exit1")

\* lines 406-408: res[1] of an item without a comma raises IndexError,
\* which the except clause for ValueError does not catch
KeyboardRes(res, files_path, files) ==
  IF Len(res) < 2 THEN TokenFailed("crash")
  ELSE KeyboardItem(Upper(res[1]), res[2], files_path, files)

\* the body of the loop of parse_keyboard_actions for one item
ParseKeyboardToken(item, files_path, files) ==
  CHOOSE r \in {KeyboardRes(res, files_path, files) :
                  res \in {SplitFirst(item, ",")}} : TRUE

KeyboardItemOutcomes(items, files_path, files) ==
  [k \in 1..Len(items) |-> ParseKeyboardToken(items[k], files_path, files)]

\* shlex.split runs outside the try block: its ValueError is not caught
KeyboardSplitOutcome(actions_split, files_path, files) ==
  IF actions_split.ok
  THEN CHOOSE r \in {CollectActions(results) :
                       results \in {KeyboardItemOutcomes(actions_split.v,
                                                         files_path,
                                                         files)}} : TRUE
  ELSE ParseFailed("crash")

parse_keyboard_actions(actions_str, files_path, from_input, files) ==
  CHOOSE r \in {KeyboardSplitOutcome(actions_split, files_path, files) :
                  actions_split \in {IF from_input THEN Ok(<<actions_str>>)
                                     ELSE ShlexSplit(actions_str)}} : TRUE

(***************************************************************************)
(* parse_input_actions                                                     *)
(***************************************************************************)
\* an entry of the combined list: the tuple (action_type, action), where
\* action is the list the single-domain parser returned for the item
Combined(action_type, action) == [type |-> action_type, action |-> action]

\* the item's list under its domain, or the way its parser ended
TaggedItem(action_type, r) ==
  IF r.status = "ok" THEN TokenOk(Combined(action_type, r.actions))
  ELSE TokenFailed(r.status)

\* lines 452-460: the domain is chosen by the field before the first comma
InputItem(item, item_split, images_path, files_path, files) ==
  IF Len(item_split) = 1 \/ Upper(item_split[1]) \in MOUSE_ACTIONS_LIST
  THEN CHOOSE o \in {TaggedItem(MOUSE, r) :
                       r \in {parse_mouse_actions(item, images_path,
                                                  files)}} : TRUE
  ELSE IF Upper(item_split[1]) \in KEYBOARD_ACTIONS_LIST
  THEN CHOOSE o \in {TaggedItem(KEYBOARD, r) :
                       r \in {parse_keyboard_actions(item, files_path, TRUE,
                                                     files)}} : TRUE
  ELSE TokenFailed("exit1")

\* the body of the loop of parse_input_actions for one item
ParseInputToken(item, images_path, files_path, files) ==
  CHOOSE r \in {InputItem(item, item_split, images_path, files_path, files) :
                  item_split \in {SplitFirst(item, ",")}} : TRUE

InputItemOutcomes(items, images_path, files_path, files) ==
  [k \in 1..Len(items) |->
     ParseInputToken(items[k], images_path, files_path, files)]

\* shlex.split runs outside the try block: its ValueError is not caught
InputSplitOutcome(actions_split, images_path, files_path, files) ==
  IF actions_split.ok
  THEN CHOOSE r \in {CollectActions(results) :
                       results \in {InputItemOutcomes(actions_split.v,
                                                      images_path, files_path,
                                                      files)}} : TRUE
  ELSE ParseFailed("crash")

parse_input_actions(actions_str, images_path, files_path, files) ==
  CHOOSE r \in {InputSplitOutcome(actions_split, images_path, files_path,
                                  files) :
                  actions_split \in {ShlexSplit(actions_str)}} : TRUE

(***************************************************************************)
(* The collaborators.  Every call an executor makes is an event; an event  *)
(* names the source line of the call, which tells the literal sleep of a   *)
(* Sleep action (line 488, 542) from the global sleep after an action      *)
(* (line 523, 578, 607) and from the sleep between chords (line 556).      *)
(***************************************************************************)
EvSleep(secs, line) == [op |-> "sleep", secs |-> secs, line |-> line]

EvPosition(pos) == [op |-> "position", x |-> pos[1], y |-> pos[2]]

EvLocate(img, confidence, grayscale, found) ==
  [op |-> "locate", img |-> img, confidence |-> confidence,
   grayscale |-> grayscale, found |-> found]

EvMoveTo(x, y, duration) ==
  [op |-> "moveTo", x |-> x, y |-> y, duration |-> duration]

EvClick(x, y, button, clicks, interval) ==
  [op |-> "click", x |-> x, y |-> y, button |-> button, clicks |-> clicks,
   interval |-> interval]

EvPress(key, presses, interval) ==
  [op |-> "press", key |-> key, presses |-> presses, interval |-> interval]

EvHotkey(keys) == [op |-> "hotkey", keys |-> keys]

EvXdotoolType(text, delay) ==
  [op |-> "xdotool_type", text |-> text, delay |-> delay]

EvXdotoolKeyReturn == [op |-> "xdotool_key", key |-> "Return"]

EvCopy(text) == [op |-> "copy", text |-> text]

EvRead(path) == [op |-> "read", path |-> path]

\* pyautogui.locateCenterOnScreen: the centre of the image when the screen
\* shows it with a match score of at least confidence, None otherwise.  The
\* screen maps each image it shows to its centre and its score, with and
\* without grayscale.
LocateCenterOnScreen(scr, img, confidence, grayscale) ==
  IF img \in DOMAIN scr /\ scr[img].score[grayscale] >= confidence
  THEN [found |-> TRUE, x |-> scr[img].x, y |-> scr[img].y]
  ELSE [found |-> FALSE, x |-> 0, y |-> 0]

(***************************************************************************)
(* mouse_cmd: one iteration of its loop                                    *)
(***************************************************************************)
\* what an iteration did: how it ended ("ok", "exit1" for exit(1), "crash"
\* for an exception nobody catches), the calls it made, the cursor it left
Iter(status, events, cur) ==
  [status |-> status, events |-> events, cursor |-> cur]

\* the seconds of a Sleep action's first argument in milliseconds; a str
\* cannot be compared with 0.0 (TypeError)
SleepSeconds(arg) ==
  CASE arg.t = "float" -> Ok(arg.v)
    [] arg.t = "int" -> Ok(arg.v * 1000)
    [] OTHER -> ValueError

\* lines 484-488 and 538-542: a Sleep action sleeps its own seconds
SleepFor(seconds, line, cur) ==
  IF ~seconds.ok THEN Iter("crash", <<>>, cur)
  ELSE IF seconds.v > 0 THEN Iter("ok", <<EvSleep(seconds.v, line)>>, cur)
  ELSE Iter("ok", <<>>, cur)

SleepIter(args, line, cur) == SleepFor(SleepSeconds(args[1]), line, cur)

\* a resolution that takes a relative field for the coordinate itself
ResolveCoordinateAsAbsolute(c, cur_pos) ==
  IF c.t = "int" THEN c.v ELSE PyInt(c.v).v

\* line 504-505: an int is the coordinate, a str is added to the cursor's
ResolveCoordinate(c, cur_pos) ==
  IF c.t = "int" THEN c.v ELSE cur_pos + PyInt(c.v).v

\* lines 495-500
Located(location, img, confidence, grayscale) ==
  [found |-> location.found, x |-> location.x, y |-> location.y,
   events |-> <<EvLocate(img, confidence, grayscale, location.found)>>]

\* lines 490-505: the point the action is about, and the calls that found it
ResolveTarget(args, confidence, grayscale, cur, scr) ==
  CASE Len(args) = 0 ->
         [found |-> TRUE, x |-> cur[1], y |-> cur[2],
          events |-> <<EvPosition(cur)>>]
    [] Len(args) = 1 ->
         Located(LocateCenterOnScreen(scr, args[1].v, confidence, grayscale),
                 args[1].v, confidence, grayscale)
    [] OTHER ->
         [found |-> TRUE,
          x |-> ResolveCoordinate(args[1], cur[1]),
          y |-> ResolveCoordinate(args[2], cur[2]),
          events |-> <<EvPosition(cur)>>]

\* a move made for every action, whatever the duration
MoveEventsAlways(action, x, y, duration) == <<EvMoveTo(x, y, duration)>>

\* lines 507-509
MoveEvents(action, x, y, duration) ==
  IF duration > 0 \/ action = MOVE THEN <<EvMoveTo(x, y, duration)>>
  ELSE <<>>

\* lines 511-519
ClickEvents(action, x, y, doubleclick_interval) ==
  IF action # MOVE
  THEN LET single_click == action # DOUBLELEFT
       IN  <<EvClick(x, y, BTN_MAPPING[action],
                     IF single_click THEN 1 ELSE 2,
                     IF single_click THEN 0 ELSE doubleclick_interval)>>
  ELSE <<>>

\* a global sleep that does not look at the position of the action
GlobalSleepAfterEvery(sleep_time, i, n, line) ==
  IF sleep_time > 0 THEN <<EvSleep(sleep_time, line)>> ELSE <<>>

\* lines 521-523, 576-578: no sleep after the last action (i counts from 1)
GlobalSleepEvents(sleep_time, i, n, line) ==
  IF sleep_time > 0 /\ i < n THEN <<EvSleep(sleep_time, line)>> ELSE <<>>

\* an iteration that clicks where the locator's empty answer points
MouseActsDespiteMiss(a, target, i, n, par, cur) ==
  Iter("ok",
       target.events
         \o MoveEvents(a.action, target.x, target.y, par.duration)
         \o ClickEvents(a.action, target.x, target.y,
                        par.doubleclick_interval)
         \o GlobalSleepEvents(par.sleep_time, i, n, 523),
       <<target.x, target.y>>)

\* lines 496-523 once the target is resolved: a miss is fatal
MouseActs(a, target, i, n, par, cur) ==
  IF ~target.found THEN Iter("exit1", target.events, cur)
  ELSE Iter("ok",
            target.events
              \o MoveEvents(a.action, target.x, target.y, par.duration)
              \o ClickEvents(a.action, target.x, target.y,
                             par.doubleclick_interval)
              \o GlobalSleepEvents(par.sleep_time, i, n, 523),
            <<target.x, target.y>>)

\* lines 482-523 for the i-th of n actions
MouseIter(a, i, n, par, cur, scr) ==
  IF a.action = SLEEP THEN SleepIter(a.args, 488, cur)
  ELSE CHOOSE r \in {MouseActs(a, target, i, n, par, cur) :
                       target \in {ResolveTarget(a.args, par.confidence,
                                                 par.grayscale, cur, scr)}} :
         TRUE

(***************************************************************************)
(* type_with_xdotool and keyboard_cmd: one iteration of its loop           *)
(***************************************************************************)
IsLineBreak(c) == c = "\n" \/ c = "\r"

FirstLineBreak(s) ==
  IF \E k \in 1..Len(s) : IsLineBreak(s[k])
  THEN CHOOSE k \in 1..Len(s) :
         IsLineBreak(s[k]) /\ \A m \in 1..(k - 1) : ~IsLineBreak(s[m])
  ELSE 0

\* str.splitlines(keepends=True) for the line breaks \n, \r and \r\n
RECURSIVE SplitLines(_)
SplitLines(s) ==
  LET k == FirstLineBreak(s)
      e == IF k > 0 /\ k < Len(s) /\ s[k] = "\r" /\ s[k + 1] = "\n"
           THEN k + 1 ELSE k
  IN  IF Len(s) = 0 THEN <<>>
      ELSE IF k = 0 THEN <<s>>
      ELSE <<SubSeq(s, 1, e)>> \o SplitLines(SubSeq(s, e + 1, Len(s)))

\* lines 247-252: what one line of the text makes xdotool do
LineEvents(line, interval) ==
  IF Len(line) > 0 /\ line[Len(line)] = "\n"
  THEN <<EvXdotoolType(SubSeq(line, 1, Len(line) - 1), interval),
         EvXdotoolKeyReturn>>
  ELSE <<EvXdotoolType(line, interval)>>

RECURSIVE LinesEvents(_, _)
LinesEvents(lines, interval) ==
  IF Len(lines) = 0 THEN <<>>
  ELSE LineEvents(Head(lines), interval) \o LinesEvents(Tail(lines), interval)

type_with_xdotool(text, interval) ==
  IF interval < MIN_TYPING_INTERVAL
  THEN <<EvCopy(text), EvHotkey(<<"ctrl", "v">>)>>
  ELSE LinesEvents(SplitLines(text), interval)

\* lines 553-556: the chord, presses times, each followed by the sleep
RECURSIVE ChordEvents(_, _, _)
ChordEvents(keys, presses, press_interval) ==
  IF presses <= 0 THEN <<>>
  ELSE <<EvHotkey(keys)>>
         \o (IF press_interval > 0 THEN <<EvSleep(press_interval, 556)>>
             ELSE <<>>)
         \o ChordEvents(keys, presses - 1, press_interval)

\* lines 544-556
KeyEvents(keys, presses, press_interval) ==
  IF Len(keys) = 1 THEN <<EvPress(keys[1], presses, press_interval)>>
  ELSE ChordEvents(keys, presses, press_interval)

\* a read() that returns the text the file had at first
FileTextStale(fls, path) == <<"a", "\n", "b">>

\* lines 566-567: file.read() returns the text the file has now
FileText(fls, path) == fls[path]

\* lines 536-578 for the i-th of n actions; fls maps each file to its text
KeyboardIter(a, i, n, par, cur, fls) ==
  CASE a.action = SLEEP -> SleepIter(a.args, 542, cur)
    [] a.action = KEY ->
         Iter("ok",
              KeyEvents(a.args[1].v, a.args[2].v, par.press_interval)
                \o GlobalSleepEvents(par.sleep_time, i, n, 578),
              cur)
    [] a.action = TYPE ->
         Iter("ok",
              type_with_xdotool(a.args[1].v, par.typing_interval)
                \o GlobalSleepEvents(par.sleep_time, i, n, 578),
              cur)
    [] a.action = TYPEFILE ->
         IF a.args[1].v \in DOMAIN fls
         THEN Iter("ok",
                   <<EvRead(a.args[1].v)>>
                     \o type_with_xdotool(FileText(fls, a.args[1].v),
                                          par.typing_interval)
                     \o GlobalSleepEvents(par.sleep_time, i, n, 578),
                   cur)
         ELSE Iter("exit1", <<EvRead(a.args[1].v)>>, cur)
    [] OTHER -> Iter("exit1", <<>>, cur)

(***************************************************************************)
(* The invocations.  Each process is one run of main(); the lock file, the *)
(* pointer, the screen and the file system are shared by all of them.      *)
(***************************************************************************)
VARIABLES
  argv,         \* argv[p]: the command, its action string and its options
  pc,           \* pc[p]: "start", "validated", "parsed", "running", "done"
  parsed,       \* parsed[p]: the list the parser returned
  stack,        \* stack[p]: the executor calls in progress, outermost first
  lockCounter,  \* lockCounter[p]: the nesting depth of p's FileLock object
  lockOwner,    \* the process that holds the lock file, 0 when free
  exitCode,     \* exitCode[p]: the exit status once pc[p] = "done"
  cursor,       \* the pointer's position <<x, y>>
  screen,       \* the images on screen: image |-> centre and match scores
  files,        \* the regular files: path |-> text
  trace         \* every call made to a collaborator, in order

vars ==
  <<argv, pc, parsed, stack, lockCounter, lockOwner, exitCode, cursor,
    screen, files, trace>>

Procs == {1, 2}

\* an event of the trace: the call, who made it, and for which action: idx
\* is the index in the top-level list, sub the index in the list of a nested
\* call made by input_cmd (0 outside one)
Tagged(events, p, idx, sub) ==
  [k \in 1..Len(events) |->
     events[k] @@ [pid |-> p, idx |-> idx, sub |-> sub]]

(***************************************************************************)
(* The lock: LOCK = FileLock(...), used as a decorator.  Entering the      *)
(* decorated function acquires (blocking, no timeout), leaving it by       *)
(* return or by exception releases; the FileLock object counts its nested  *)
(* acquisitions and gives the file back when the count returns to 0.       *)
(***************************************************************************)
\* an acquire() that never waits
AcquirableAlways(p) == TRUE

\* a release() that keeps the count
CounterKept(n) == n

\* an acquire() that waits for the file even when its own object holds it
AcquirableWhenFree(p) == lockOwner = 0

\* a release() that gives the file up whatever the count
CounterDropped(n) == 0

\* acquire() can proceed: the object already holds the file, or it is free
LockAcquirable(p) == lockCounter[p] > 0 \/ lockOwner = 0

\* the counter after release()
ReleasedCounter(n) == IF n > 0 THEN n - 1 ELSE 0

\* the counter after the exits of all the frames an exception unwinds
RECURSIVE UnwoundCounter(_, _)
UnwoundCounter(n, frames) ==
  IF frames = 0 THEN n ELSE UnwoundCounter(ReleasedCounter(n), frames - 1)

\* the owner of the file once p's counter is n
OwnerAfter(p, n) == IF n = 0 /\ lockOwner = p THEN 0 ELSE lockOwner

(***************************************************************************)
(* The calls of the executors: which parameters each caller passes         *)
(***************************************************************************)
MouseParams(sleep_time, duration, doubleclick_interval, confidence, grayscale) ==
  [sleep_time |-> sleep_time, duration |-> duration,
   doubleclick_interval |-> doubleclick_interval,
   confidence |-> confidence, grayscale |-> grayscale]

KeyboardParams(sleep_time, typing_interval, press_interval) ==
  [sleep_time |-> sleep_time, typing_interval |-> typing_interval,
   press_interval |-> press_interval]

Frame(fn, actions, par) == [fn |-> fn, actions |-> actions, i |-> 1, par |-> par]

\* line 721: mouse_cmd(mouse_actions, args.sleep, args.duration,
\* args.doubleclick_interval)
MainMouseCall(args, actions) ==
  Frame("mouse_cmd", actions,
        MouseParams(args.sleep, args.duration, args.doubleclick_interval,
                    DEFAULT_CONFIDENCE, DEFAULT_GRAYSCALE))

\* line 727
MainKeyboardCall(args, actions) ==
  Frame("keyboard_cmd", actions,
        KeyboardParams(args.sleep, args.typing_interval, args.press_interval))

\* line 733: input_cmd gets every option
MainInputCall(args, actions) ==
  Frame("input_cmd", actions,
        [sleep_time |-> args.sleep, duration |-> args.duration,
         doubleclick_interval |-> args.doubleclick_interval,
         confidence |-> args.confidence, grayscale |-> args.grayscale,
         typing_interval |-> args.typing_interval,
         press_interval |-> args.press_interval])

\* line 597: mouse_cmd(action, sleep_time, duration, doubleclick_interval)
InputMouseCall(par, action) ==
  Frame("mouse_cmd", action,
        MouseParams(par.sleep_time, par.duration, par.doubleclick_interval,
                    DEFAULT_CONFIDENCE, DEFAULT_GRAYSCALE))

\* line 599
InputKeyboardCall(par, action) ==
  Frame("keyboard_cmd", action,
        KeyboardParams(par.sleep_time, par.typing_interval,
                       par.press_interval))

(***************************************************************************)
(* main                                                                    *)
(***************************************************************************)
check_mouse_args(args) ==
  /\ ~(args.doubleclick_interval < 0)
  /\ ~(args.duration < 0)
  /\ (0 <= args.confidence /\ args.confidence <= 1000)

\* a check of the keyboard options that looks at the typing interval only
check_typing_interval_only(args) == ~(args.typing_interval < 0)

check_keyboard_args(args) ==
  /\ ~(args.typing_interval < 0)
  /\ ~(args.press_interval < 0)

\* lines 712-718, 723-724, 729-730: the options are in range
ArgsValid(args) ==
  /\ ~(args.sleep < 0)
  /\ CASE args.command = "mouse" -> check_mouse_args(args)
       [] args.command = "keyboard" -> check_keyboard_args(args)
       [] OTHER -> check_mouse_args(args) /\ check_keyboard_args(args)

\* lines 719, 725, 731: the parser of the command
ParseCommand(args, fls) ==
  CASE args.command = "mouse" ->
         parse_mouse_actions(args.actions, args.images_path, fls)
    [] args.command = "keyboard" ->
         parse_keyboard_actions(args.actions, args.files_path, FALSE, fls)
    [] OTHER ->
         parse_input_actions(args.actions, args.images_path,
                             args.files_path, fls)

\* lines 721, 727, 733: the executor call of the command
MainCall(args, actions) ==
  CASE args.command = "mouse" -> MainMouseCall(args, actions)
    [] args.command = "keyboard" -> MainKeyboardCall(args, actions)
    [] OTHER -> MainInputCall(args, actions)

(***************************************************************************)
(* The steps of an invocation                                              *)
(***************************************************************************)
Top(p) == stack[p][Len(stack[p])]

\* the position in the top-level list, and in the list of a nested call
Idx(p) == stack[p][1].i

Sub(p) == IF Len(stack[p]) > 1 THEN Top(p).i ELSE 0

\* the process ends with the given exit status
Exits(p, code) ==
  /\ pc' = [pc EXCEPT ![p] = "done"]
  /\ exitCode' = [exitCode EXCEPT ![p] = code]

\* exit(1) or an uncaught exception inside the executors: every frame's
\* lock exit runs as the exception passes, and the status is 1
Aborts(p) ==
  LET c == UnwoundCounter(lockCounter[p], Len(stack[p]))
  IN  /\ stack' = [stack EXCEPT ![p] = <<>>]
      /\ lockCounter' = [lockCounter EXCEPT ![p] = c]
      /\ lockOwner' = OwnerAfter(p, c)
      /\ Exits(p, 1)

\* lines 712-718, 722-724, 728-730: the options are checked first
Validate(p) ==
  /\ pc[p] = "start"
  /\ IF ArgsValid(argv[p])
     THEN pc' = [pc EXCEPT ![p] = "validated"] /\ UNCHANGED exitCode
     ELSE Exits(p, 1)
  /\ UNCHANGED <<argv, parsed, stack, lockCounter, lockOwner, cursor, screen,
                 files, trace>>

\* lines 719, 725, 731: the whole action string is parsed
Parse(p) ==
  /\ pc[p] = "validated"
  /\ \E r \in {ParseCommand(argv[p], DOMAIN files)} :
       IF r.status = "ok"
       THEN /\ parsed' = [parsed EXCEPT ![p] = r.actions]
            /\ pc' = [pc EXCEPT ![p] = "parsed"]
            /\ UNCHANGED exitCode
       ELSE Exits(p, 1) /\ UNCHANGED parsed
  /\ UNCHANGED <<argv, stack, lockCounter, lockOwner, cursor, screen, files,
                 trace>>

\* lines 721, 727, 733 with the decorator of lines 470, 526, 581: the
\* executor is entered once the lock is acquired
Enter(p) ==
  /\ pc[p] = "parsed"
  /\ LockAcquirable(p)
  /\ lockCounter' = [lockCounter EXCEPT ![p] = @ + 1]
  /\ lockOwner' = p
  /\ stack' = [stack EXCEPT ![p] = <<MainCall(argv[p], parsed[p])>>]
  /\ pc' = [pc EXCEPT ![p] = "running"]
  /\ UNCHANGED <<argv, parsed, exitCode, cursor, screen, files, trace>>

\* the end of one iteration of mouse_cmd or keyboard_cmd
FinishIter(p, r) ==
  /\ trace' = trace \o Tagged(r.events, p, Idx(p), Sub(p))
  /\ cursor' = r.cursor
  /\ IF r.status = "ok"
     THEN /\ stack' = [stack EXCEPT ![p][Len(stack[p])].i = @ + 1]
          /\ UNCHANGED <<pc, exitCode, lockCounter, lockOwner>>
     ELSE Aborts(p)
  /\ UNCHANGED <<argv, parsed, screen, files>>

\* lines 482-523: mouse_cmd handles its next action
MouseStep(p) ==
  /\ pc[p] = "running"
  /\ Top(p).fn = "mouse_cmd"
  /\ Top(p).i <= Len(Top(p).actions)
  /\ \E r \in {MouseIter(Top(p).actions[Top(p).i], Top(p).i,
                          Len(Top(p).actions), Top(p).par, cursor, screen)} :
       FinishIter(p, r)

\* lines 536-578: keyboard_cmd handles its next action
KeyboardStep(p) ==
  /\ pc[p] = "running"
  /\ Top(p).fn = "keyboard_cmd"
  /\ Top(p).i <= Len(Top(p).actions)
  /\ \E r \in {KeyboardIter(Top(p).actions[Top(p).i], Top(p).i,
                             Len(Top(p).actions), Top(p).par, cursor,
                             files)} :
       FinishIter(p, r)

\* lines 595-599: input_cmd calls the executor of its next item, which
\* acquires the lock again.  (Lines 600-602, an unknown action type, cannot
\* be reached: parse_input_actions tags every item MOUSE or KEYBOARD.)
InputStep(p) ==
  /\ pc[p] = "running"
  /\ Top(p).fn = "input_cmd"
  /\ Top(p).i <= Len(Top(p).actions)
  /\ LockAcquirable(p)
  /\ LET item == Top(p).actions[Top(p).i]
     IN  stack' = [stack EXCEPT ![p] =
                     Append(@, IF item.type = MOUSE
                               THEN InputMouseCall(Top(p).par, item.action)
                               ELSE InputKeyboardCall(Top(p).par,
                                                      item.action))]
  /\ lockCounter' = [lockCounter EXCEPT ![p] = @ + 1]
  /\ lockOwner' = p
  /\ UNCHANGED <<argv, pc, parsed, exitCode, cursor, screen, files, trace>>

\* an input_cmd that never sleeps between its items
InputAfterCallSilent(item, sleep_time, i, n) ==
  [status |-> "ok", events |-> <<>>]

\* lines 604-607: what input_cmd does when the call of item i returns;
\* action[0][0] of an item with no action raises IndexError
InputAfterCall(item, sleep_time, i, n) ==
  IF Len(item.action) = 0 THEN [status |-> "crash", events |-> <<>>]
  ELSE LET is_sleep_action ==
             item.action[1].action
               \in (IF item.type = MOUSE THEN MOUSE_SLEEP_ACTIONS_LIST
                    ELSE KEYBOARD_SLEEP_ACTIONS_LIST)
       IN  [status |-> "ok",
            events |-> IF ~is_sleep_action
                       THEN GlobalSleepEvents(sleep_time, i, n, 607)
                       ELSE <<>>]

\* an executor returns: its lock exit runs; main then ends with status 0
\* (lines 738-739), input_cmd goes on with lines 604-607
Return(p) ==
  /\ pc[p] = "running"
  /\ Top(p).i > Len(Top(p).actions)
  /\ LET c == ReleasedCounter(lockCounter[p])
     IN  IF Len(stack[p]) = 1
         THEN /\ stack' = [stack EXCEPT ![p] = <<>>]
              /\ lockCounter' = [lockCounter EXCEPT ![p] = c]
              /\ lockOwner' = OwnerAfter(p, c)
              /\ Exits(p, 0)
              /\ UNCHANGED trace
         ELSE LET caller == stack[p][1]
                  r == InputAfterCall(caller.actions[caller.i],
                                      caller.par.sleep_time, caller.i,
                                      Len(caller.actions))
                  c0 == UnwoundCounter(c, 1)
              IN  /\ trace' = trace \o Tagged(r.events, p, caller.i, 0)
                  /\ IF r.status = "ok"
                     THEN /\ stack' = [stack EXCEPT ![p] =
                                         <<[caller EXCEPT !.i = @ + 1]>>]
                          /\ lockCounter' = [lockCounter EXCEPT ![p] = c]
                          /\ lockOwner' = OwnerAfter(p, c)
                          /\ UNCHANGED <<pc, exitCode>>
                     ELSE /\ stack' = [stack EXCEPT ![p] = <<>>]
                          /\ lockCounter' = [lockCounter EXCEPT ![p] = c0]
                          /\ lockOwner' = OwnerAfter(p, c0)
                          /\ Exits(p, 1)
  /\ UNCHANGED <<argv, parsed, cursor, screen, files>>

\* the text a file is written over with
NewText == <<"c">>

\* the environment: a text file goes away at any moment, so that open() at
\* line 566 raises OSError for a path that was a file when it was parsed
FileRemoved ==
  /\ \E f \in DOMAIN files :
       /\ Len(files[f]) > 0
       /\ files' = [g \in DOMAIN files \ {f} |-> files[g]]
  /\ UNCHANGED <<argv, pc, parsed, stack, lockCounter, lockOwner, exitCode,
                 cursor, screen, trace>>

\* the environment: a text file is written over at any moment
FileRewritten ==
  /\ \E f \in DOMAIN files :
       /\ Len(files[f]) > 0
       /\ files[f] # NewText
       /\ files' = [files EXCEPT ![f] = NewText]
  /\ UNCHANGED <<argv, pc, parsed, stack, lockCounter, lockOwner, exitCode,
                 cursor, screen, trace>>

Next ==
  \/ FileRewritten
  \/ \E p \in Procs :
       \/ Validate(p)
       \/ Parse(p)
       \/ Enter(p)
       \/ MouseStep(p)
       \/ KeyboardStep(p)
       \/ InputStep(p)
       \/ Return(p)
  \/ FileRemoved

(***************************************************************************)
(* The runs that are checked: the file system, the screen, the options and *)
(* the action strings the invocations are started with                     *)
(***************************************************************************)
\* the longest action string tried, in items
MaxTokens == 2

InitialCursor == <<5, 9>>

File_i == <<"/","w","/","i">>

File_n == <<"/","w","/","n">>

File_f == <<"/","w","/","f">>

File_S == <<"/","w","/","S">>

File_l == <<"/","w","/","l">>

\* two images, and a text file of two lines
FilesPlain ==
  (File_i :> <<>>) @@ (File_n :> <<>>) @@ (File_f :> <<"a", "\n", "b">>)

\* the same with files that are named like keywords
FilesOdd == FilesPlain @@ (File_S :> <<>>) @@ (File_l :> <<>>)

\* image i is on screen and matches well; image n matches well in colour
\* only; no other image is on screen
ScreenShown ==
  (File_i :> [x |-> 40, y |-> 50, score |-> (TRUE :> 900) @@ (FALSE :> 900)])
    @@ (File_n :> [x |-> 60, y |-> 70,
                   score |-> (TRUE :> 600) @@ (FALSE :> 900)])

\* the options of a run
Options(sleep, duration, confidence, grayscale, typing_interval, press_interval) ==
  [sleep |-> sleep, duration |-> duration,
   doubleclick_interval |-> DEFAULT_DOUBLECLICK_INTERVAL,
   confidence |-> confidence, grayscale |-> grayscale,
   typing_interval |-> typing_interval, press_interval |-> press_interval,
   images_path |-> <<>>, files_path |-> <<>>]

DefaultOptions ==
  Options(DEFAULT_SLEEP_TIME, DEFAULT_DURATION, DEFAULT_CONFIDENCE,
          DEFAULT_GRAYSCALE, DEFAULT_TYPING_INTERVAL, DEFAULT_PRESS_INTERVAL)

\* --sleep 0.5 --duration 0.2 --press-interval 0.03
SlowOptions ==
  Options(500, 200, DEFAULT_CONFIDENCE, DEFAULT_GRAYSCALE,
          DEFAULT_TYPING_INTERVAL, 30)

\* --sleep 0.5 --confidence 0.5 --no-grayscale --typing-interval 0.01
LooseOptions == Options(500, DEFAULT_DURATION, 500, FALSE, 10, DEFAULT_PRESS_INTERVAL)

\* --sleep -1
BadSleepOptions ==
  Options(0 - 1000, DEFAULT_DURATION, DEFAULT_CONFIDENCE, DEFAULT_GRAYSCALE,
          DEFAULT_TYPING_INTERVAL, DEFAULT_PRESS_INTERVAL)

\* --confidence 1.5
BadConfidenceOptions ==
  Options(DEFAULT_SLEEP_TIME, DEFAULT_DURATION, 1500, DEFAULT_GRAYSCALE,
          DEFAULT_TYPING_INTERVAL, DEFAULT_PRESS_INTERVAL)

ExecOptions ==
  {DefaultOptions, SlowOptions, LooseOptions, BadSleepOptions,
   BadConfidenceOptions}

\* the items of the mouse command's action strings
MouseTokens ==
  {
    \* L  (click where the pointer is)
    <<"L">>,
    \* l  (the same keyword in lower case)
    <<"l">>,
    \* S  (the sleep keyword alone)
    <<"S">>,
    \* S,0.5
    <<"S",",","0",".","5">>,
    \* S,0
    <<"S",",","0">>,
    \* S,-1
    <<"S",",","-","1">>,
    \* 10,20
    <<"1","0",",","2","0">>,
    \* +3,-4
    <<"+","3",",","-","4">>,
    \* R,+3,7
    <<"R",",","+","3",",","7">>,
    \* i  (move to image i)
    <<"i">>,
    \* LL,n  (double click on image n)
    <<"L","L",",","n">>,
    \* S,+5,3  (a sleep keyword with coordinates)
    <<"S",",","+","5",",","3">>,
    \* X,1,2  (no such keyword)
    <<"X",",","1",",","2">>
  }

\* the items of the keyboard command's action strings
KeyboardTokens ==
  {
    \* K,a
    <<"K",",","a">>,
    \* K,Ctrl+s,2  (a chord, twice)
    <<"K",",","C","t","r","l","+","s",",","2">>,
    \* K  (no comma)
    <<"K">>,
    \* T,x
    <<"T",",","x">>,
    \* T,'x<CR>y'  (a quoted text with a carriage return in it)
    <<"T",",","'","x","\r","y","'">>,
    \* TF,f
    <<"T","F",",","f">>,
    \* TF,q  (no such file)
    <<"T","F",",","q">>,
    \* S,0.5
    <<"S",",","0",".","5">>,
    \* S,-1
    <<"S",",","-","1">>,
    \* K,a,0
    <<"K",",","a",",","0">>
  }

\* the items of the input command's action strings
InputTokens ==
  {
    \* R,+3,7
    <<"R",",","+","3",",","7">>,
    \* S,0.5
    <<"S",",","0",".","5">>,
    \* K,a
    <<"K",",","a">>,
    \* T,x
    <<"T",",","x">>,
    \* 10,20  (a bare coordinate pair)
    <<"1","0",",","2","0">>,
    \* S,-1
    <<"S",",","-","1">>,
    \* i
    <<"i">>,
    \* LL,n
    <<"L","L",",","n">>,
    \* 'R,+3,7 L'  (two mouse tokens quoted into one item)
    <<"'","R",",","+","3",",","7"," ","L","'">>,
    \* 'L,1,2 S,0.5'  (a click and a sleep quoted into one item)
    <<"'","L",",","1",",","2"," ","S",",","0",".","5","'">>,
    \* ''  (an empty item)
    <<"'","'">>,
    \* TF,q  (no such file)
    <<"T","F",",","q">>
  }

\* the items joined by one blank each
RECURSIVE JoinTokens(_)
JoinTokens(tokens) ==
  IF Len(tokens) = 0 THEN <<>>
  ELSE IF Len(tokens) = 1 THEN tokens[1]
  ELSE tokens[1] \o <<" ">> \o JoinTokens(Tail(tokens))

\* every sequence of at most MaxTokens of the given items
TokenLists(tokens) == UNION {[1..k -> tokens] : k \in 0..MaxTokens}

CommandTokens(command) ==
  CASE command = "mouse" -> MouseTokens
    [] command = "keyboard" -> KeyboardTokens
    [] OTHER -> InputTokens

Commands == {"mouse", "keyboard", "input"}

\* args as parse_known_args returns it
Args(command, actions, options) ==
  [command |-> command, actions |-> actions] @@ options

\* the invocations of the sequential runs: every short action string under
\* every set of options, and three longer ones
ShortInvocations ==
  {Args(c, JoinTokens(ts), o) :
     <<c, ts, o>> \in
       UNION {{c0} \X TokenLists(CommandTokens(c0)) \X ExecOptions :
                c0 \in Commands}}

LongInvocations ==
  {
    \* input --sleep 0.5 --duration 0.2 --press-interval 0.03
    \*   "R,+3,7 LL,n K,a"
    Args("input",
         <<"R",",","+","3",",","7"," ","L","L",",","n"," ","K",",","a">>,
         SlowOptions),
    \* mouse --sleep 0.5 --duration 0.2 "10,20 +3,-4 L,+1,+1"
    Args("mouse",
         <<"1","0",",","2","0"," ","+","3",",","-","4"," ",
           "L",",","+","1",",","+","1">>,
         SlowOptions),
    \* keyboard --sleep 0.5 --typing-interval 0.01 "K,Ctrl+s,2 S,0.5 TF,f"
    Args("keyboard",
         <<"K",",","C","t","r","l","+","s",",","2"," ",
           "S",",","0",".","5"," ","T","F",",","f">>,
         LooseOptions),
    \* keyboard "key,Enter,3 k,ctrl+s"
    Args("keyboard",
         <<"k","e","y",",","E","n","t","e","r",",","3"," ",
           "k",",","c","t","r","l","+","s">>,
         DefaultOptions),
    \* input "L Key,Shift+Tab"
    Args("input",
         <<"L"," ","K","e","y",",","S","h","i","f","t","+","T","a","b">>,
         DefaultOptions),
    \* mouse --doubleclick-interval 0.2 "LL,i R,i"
    Args("mouse", <<"L","L",",","i"," ","R",",","i">>,
         [DefaultOptions EXCEPT !.doubleclick_interval = 200]),
    \* mouse --duration -0.2 "L"
    Args("mouse", <<"L">>, [DefaultOptions EXCEPT !.duration = 0 - 200]),
    \* mouse --doubleclick-interval -0.1 "L"
    Args("mouse", <<"L">>,
         [DefaultOptions EXCEPT !.doubleclick_interval = 0 - 100]),
    \* keyboard --typing-interval -0.01 "K,a"
    Args("keyboard", <<"K",",","a">>,
         [DefaultOptions EXCEPT !.typing_interval = 0 - 10]),
    \* keyboard --press-interval -0.03 "K,a"
    Args("keyboard", <<"K",",","a">>,
         [DefaultOptions EXCEPT !.press_interval = 0 - 30]),
    \* input --press-interval -0.03 "L"
    Args("input", <<"L">>, [DefaultOptions EXCEPT !.press_interval = 0 - 30]),
    \* input --duration -0.2 "K,a"
    Args("input", <<"K",",","a">>, [DefaultOptions EXCEPT !.duration = 0 - 200])
  }

ExecInvocations == ShortInvocations \cup LongInvocations

\* a process that is not started
NotStarted == Args("none", <<>>, DefaultOptions)

\* the state shared by every specification's initial states
InitCommon ==
  /\ parsed = [p \in Procs |-> <<>>]
  /\ stack = [p \in Procs |-> <<>>]
  /\ lockCounter = [p \in Procs |-> 0]
  /\ lockOwner = 0
  /\ exitCode = [p \in Procs |-> 0 - 1]
  /\ cursor = InitialCursor
  /\ screen = ScreenShown
  /\ trace = <<>>

\* one invocation at a time: process 1 runs alone
InitExec ==
  /\ InitCommon
  /\ \E a \in ExecInvocations : argv = (1 :> a) @@ (2 :> NotStarted)
  /\ pc = (1 :> "start") @@ (2 :> "off")
  /\ files \in {FilesPlain, FilesOdd}

SpecExec == InitExec /\ [][Next]_vars

\* the invocations of the concurrent runs: ones that complete, one that
\* aborts on an image the screen does not show, two that raise inside an
\* executor, one that fails to parse and one with an option out of range
ConcurrentInvocations ==
  {
    \* mouse --sleep 0.5 --duration 0.2 "10,20 L"
    Args("mouse", <<"1","0",",","2","0"," ","L">>, SlowOptions),
    \* input --sleep 0.5 --duration 0.2 --press-interval 0.03 "R,+3,7 K,a"
    Args("input", <<"R",",","+","3",",","7"," ","K",",","a">>, SlowOptions),
    \* keyboard --sleep 0.5 --typing-interval 0.01 "T,x TF,f"
    Args("keyboard", <<"T",",","x"," ","T","F",",","f">>, LooseOptions),
    \* mouse "L LL,n"  (image n does not match in grayscale)
    Args("mouse", <<"L"," ","L","L",",","n">>, DefaultOptions),
    \* mouse "L S,+5,3"  (TypeError in mouse_cmd)
    Args("mouse", <<"L"," ","S",",","+","5",",","3">>, DefaultOptions),
    \* input "K,a ''"  (IndexError in input_cmd)
    Args("input", <<"K",",","a"," ","'","'">>, DefaultOptions),
    \* keyboard "K"  (IndexError in the parser)
    Args("keyboard", <<"K">>, DefaultOptions),
    \* keyboard --sleep -1 "K,a"
    Args("keyboard", <<"K",",","a">>, BadSleepOptions)
  }

\* two invocations started together
Init ==
  /\ InitCommon
  /\ argv \in [Procs -> ConcurrentInvocations]
  /\ pc = [p \in Procs |-> "start"]
  /\ files = FilesPlain

Spec == Init /\ [][Next]_vars

\* the steps of invocation p
Step(p) ==
  \/ Validate(p)
  \/ Parse(p)
  \/ Enter(p)
  \/ MouseStep(p)
  \/ KeyboardStep(p)
  \/ InputStep(p)
  \/ Return(p)

\* every invocation goes on whenever it can: the interpreter runs its next
\* statement, every sleep and every call of pyautogui and xdotool returns,
\* and acquire() (no timeout given, line 17) polls the lock file until it
\* is free
FairInvocations ==
  {
    \* input --sleep 0.5 --duration 0.2 --press-interval 0.03 "R,+3,7 K,a"
    Args("input", <<"R",",","+","3",",","7"," ","K",",","a">>, SlowOptions),
    \* keyboard --sleep 0.5 --typing-interval 0.01 "T,x TF,f"
    Args("keyboard", <<"T",",","x"," ","T","F",",","f">>, LooseOptions),
    \* mouse "L LL,n"  (image n does not match in grayscale)
    Args("mouse", <<"L"," ","L","L",",","n">>, DefaultOptions),
    \* keyboard "K"  (IndexError in the parser)
    Args("keyboard", <<"K">>, DefaultOptions),
    \* keyboard --sleep -1 "K,a"
    Args("keyboard", <<"K",",","a">>, BadSleepOptions)
  }

InitFair ==
  /\ InitCommon
  /\ argv \in [Procs -> FairInvocations]
  /\ pc = [p \in Procs |-> "start"]
  /\ files = FilesPlain

SpecFair == InitFair /\ [][Next]_vars /\ \A p \in Procs : WF_vars(Step(p))

(***************************************************************************)
(* Properties.  The trace holds every call to a collaborator, tagged with  *)
(* the process that made it and the action it was made for.                *)
(***************************************************************************)
\* the global sleep after an action (lines 523, 578 and 607)
IsGlobalSleep(e) == e.op = "sleep" /\ e.line \in {523, 578, 607}

\* the literal sleep of a Sleep action (lines 488 and 542)
IsLiteralSleep(e) == e.op = "sleep" /\ e.line \in {488, 542}

\* the positions in the trace of the calls p made for the given action
StepEvents(p, idx, sub) ==
  {k \in 1..Len(trace) :
     trace[k].pid = p /\ trace[k].idx = idx /\ trace[k].sub = sub}

HasEvents(p) == \E k \in 1..Len(trace) : trace[k].pid = p

\* the action an event was issued for
ActionAt(p, idx, sub) ==
  IF argv[p].command = "input" THEN parsed[p][idx].action[sub]
  ELSE parsed[p][idx]

\* the event was issued for the last action of p's sequence
ForFinalAction(e) ==
  /\ e.idx = Len(parsed[e.pid])
  /\ \/ argv[e.pid].command # "input"
     \/ e.sub = 0
     \/ e.sub = Len(parsed[e.pid][e.idx].action)

\* C1: two invocations started together are never both inside an executor,
\* and a call of one invocation follows a call of the other only when the
\* other has finished and given the lock back
MutualExclusion ==
  /\ \A p, q \in Procs : p # q => ~(stack[p] # <<>> /\ stack[q] # <<>>)
  /\ \A p \in Procs : stack[p] # <<>> => lockOwner = p
  /\ \A j, k \in 1..Len(trace) :
       (j < k /\ trace[j].pid # trace[k].pid)
         => /\ pc[trace[j].pid] = "done"
            /\ lockCounter[trace[j].pid] = 0

\* both invocations have driven the input devices, one after the other, and
\* the second is still inside its executor
SecondRunsAfterFirst ==
  \E j, k \in 1..Len(trace) :
    /\ j < k
    /\ trace[j].pid # trace[k].pid
    /\ pc[trace[k].pid] = "running"

\* C2: however an executor is left (return, exit(1), exception), the
\* invocation no longer holds the lock, and the lock file is free when no
\* invocation is inside an executor
LockReleasedOnExit ==
  /\ \A p \in Procs :
       /\ lockCounter[p] = Len(stack[p])
       /\ pc[p] = "done" => (stack[p] = <<>> /\ lockOwner # p)
  /\ (\A p \in Procs : stack[p] = <<>>) => lockOwner = 0

\* an invocation aborted inside keyboard_cmd on a file it could not read,
\* with status 1, and the other one acquired the lock after it and made a
\* call
OtherRunsAfterAbort ==
  \E j, k \in 1..Len(trace) :
    /\ j < k
    /\ trace[j].pid # trace[k].pid
    /\ exitCode[trace[j].pid] = 1
    /\ trace[j].op = "read"
    /\ trace[j].path \notin DOMAIN files

\* the grammar of a mouse token as the specification gives it
SpecMouseTokenOf(parts, images_path, fls) ==
  CASE Len(parts) = 1 ->
         \/ Upper(parts[1]) \in MOUSE_CLICK_ACTIONS_LIST
         \/ /\ Upper(parts[1]) \notin MOUSE_SLEEP_ACTIONS_LIST
            /\ validate_file_path(parts[1], images_path, fls).ok
    [] Len(parts) = 2 ->
         IF Upper(parts[1]) \in MOUSE_SLEEP_ACTIONS_LIST
         THEN PyFloat(parts[2]).ok /\ PyFloat(parts[2]).v >= 0
         ELSE IF check_coordinate_format(parts[1])
         THEN validate_coordinates(parts[1], parts[2]).ok
         ELSE /\ Upper(parts[1])
                   \in MOUSE_ACTIONS_LIST \ MOUSE_SLEEP_ACTIONS_LIST
              /\ validate_file_path(parts[2], images_path, fls).ok
    [] Len(parts) = 3 ->
         /\ Upper(parts[1]) \in MOUSE_ACTIONS_LIST \ MOUSE_SLEEP_ACTIONS_LIST
         /\ validate_coordinates(parts[2], parts[3]).ok
    [] OTHER -> FALSE

SpecMouseTokenValid(tok, images_path, fls) ==
  SpecMouseTokenOf(SplitOn(tok, ","), images_path, fls)

SomeFailed(results) == \E k \in 1..Len(results) : results[k].status # "ok"

\* the action string has a token that is not valid: for the mouse command
\* by the grammar of the specification, for the other two by their parsers
HasInvalidToken(args, fls) ==
  CASE args.command = "mouse" ->
         \E tok \in {SplitWs(args.actions)[k] :
                       k \in 1..Len(SplitWs(args.actions))} :
           ~SpecMouseTokenValid(tok, args.images_path, fls)
    [] args.command = "keyboard" ->
         /\ ShlexSplit(args.actions).ok
         /\ SomeFailed(KeyboardItemOutcomes(ShlexSplit(args.actions).v,
                                            args.files_path, fls))
    [] args.command = "input" ->
         /\ ShlexSplit(args.actions).ok
         /\ SomeFailed(InputItemOutcomes(ShlexSplit(args.actions).v,
                                         args.images_path, args.files_path,
                                         fls))
    [] OTHER -> FALSE

\* C3: an action string with an invalid token at any position ends the
\* invocation with no call to a collaborator, and no list of actions,
\* partial or whole, reaches an executor (looked at while the files are the
\* ones the parser saw)
ParsingIsAtomic ==
  \A p \in Procs :
    (HasInvalidToken(argv[p], DOMAIN files) /\ File_f \in DOMAIN files)
      => /\ ~HasEvents(p)
         /\ pc[p] \notin {"parsed", "running"}
         /\ pc[p] = "done" => exitCode[p] = 1

\* C4: no global sleep is issued for the last action of a sequence, in any
\* of the three executors
NoSleepAfterFinalAction ==
  \A k \in 1..Len(trace) : IsGlobalSleep(trace[k]) => ~ForFinalAction(trace[k])

\* an input run with a global sleep has completed: a sleep followed an
\* earlier item, and the key press of the last item is the last call
InputRanWithGlobalSleep ==
  /\ Len(trace) > 1
  /\ argv[1].command = "input"
  /\ pc[1] = "done" /\ exitCode[1] = 0
  /\ \E k \in 1..Len(trace) : IsGlobalSleep(trace[k]) /\ trace[k].line = 607
  /\ trace[Len(trace)].op = "press"
  /\ trace[Len(trace)].idx = Len(parsed[1])

\* the calls made for a Sleep(s) action: one sleep of s, none when s = 0
OnlyLiteralSleep(p, idx, sub, seconds) ==
  IF seconds > 0
  THEN /\ Cardinality(StepEvents(p, idx, sub)) = 1
       /\ \A k \in StepEvents(p, idx, sub) :
            IsLiteralSleep(trace[k]) /\ trace[k].secs = seconds
  ELSE StepEvents(p, idx, sub) = {}

IsLiteralSleepAction(a) ==
  a.action = SLEEP /\ Len(a.args) = 1 /\ a.args[1].t = "float"

\* C5: in a completed run every Sleep(s) action blocked for s and nothing
\* else, and no global sleep was issued after it: in mouse_cmd and
\* keyboard_cmd among the calls of the action, in input_cmd after the item
\* the Sleep action ends
LiteralSleepReplacesGlobalSleep ==
  \A p \in Procs :
    (pc[p] = "done" /\ exitCode[p] = 0)
      => \A idx \in 1..Len(parsed[p]) :
           IF argv[p].command = "input"
           THEN \A sub \in 1..Len(parsed[p][idx].action) :
                  IsLiteralSleepAction(parsed[p][idx].action[sub])
                    => /\ OnlyLiteralSleep(
                            p, idx, sub,
                            parsed[p][idx].action[sub].args[1].v)
                       /\ sub = Len(parsed[p][idx].action)
                            => StepEvents(p, idx, 0) = {}
           ELSE IsLiteralSleepAction(parsed[p][idx])
                  => OnlyLiteralSleep(p, idx, 0, parsed[p][idx].args[1].v)

\* the delta a relative field stands for: its digits under its sign
SignedDelta(field) ==
  IF field[1] = "-" THEN 0 - DigitsValue(Tail1(field))
  ELSE DigitsValue(Tail1(field))

\* what one field of a coordinate target resolves to on an axis where the
\* pointer is at position at
ExpectedCoordinate(c, at) ==
  IF c.t = "int" THEN c.v ELSE at + SignedDelta(c.v)

IsPointerCall(e) == e.op \in {"moveTo", "click"}

\* where the calls before the k-th left the pointer
PointerBefore(k) ==
  IF \E j \in 1..(k - 1) : IsPointerCall(trace[j])
  THEN LET last == CHOOSE j \in 1..(k - 1) :
                     /\ IsPointerCall(trace[j])
                     /\ \A m \in (j + 1)..(k - 1) : ~IsPointerCall(trace[m])
       IN  <<trace[last].x, trace[last].y>>
  ELSE InitialCursor

\* the position read for the action that the k-th call was made for
PositionReadFor(k) ==
  CHOOSE j \in 1..k :
    /\ trace[j].op = "position"
    /\ trace[j].pid = trace[k].pid
    /\ trace[j].idx = trace[k].idx
    /\ trace[j].sub = trace[k].sub

\* the k-th call is at the point that args resolves to where the pointer
\* was when the position was read at call r; that position is the live one
ResolvedAt(k, r, args) ==
  /\ <<trace[r].x, trace[r].y>> = PointerBefore(r)
  /\ trace[k].x = ExpectedCoordinate(args[1], PointerBefore(r)[1])
  /\ trace[k].y = ExpectedCoordinate(args[2], PointerBefore(r)[2])

\* C6: the point of every move and click on a coordinate target is, on each
\* axis by itself, the absolute field, or else the signed delta added to
\* where the earlier actions of the run left the pointer
RelativeCoordinatesResolvedLive ==
  \A k \in 1..Len(trace) :
    (/\ IsPointerCall(trace[k])
     /\ Len(ActionAt(trace[k].pid, trace[k].idx, trace[k].sub).args) = 2)
      => ResolvedAt(k, PositionReadFor(k),
                    ActionAt(trace[k].pid, trace[k].idx, trace[k].sub).args)

\* "10,20 +3,-4": the second move went to 13,16 (not to 8,5, which is the
\* delta from the position at the start)
RelativeMoveAfterMove ==
  \E k \in 1..Len(trace) :
    /\ trace[k].op = "moveTo"
    /\ trace[k].idx = 2
    /\ trace[k].x = 13 /\ trace[k].y = 16
    /\ ActionAt(trace[k].pid, 2, trace[k].sub).args[1].t = "str"
    /\ PointerBefore(k) = <<10, 20>>
    /\ InitialCursor # <<10, 20>>

\* C7: every query of the Screen Locator carries the confidence and the
\* grayscale setting the invocation was configured with
LocatorGetsConfiguredValues ==
  \A k \in 1..Len(trace) :
    trace[k].op = "locate"
      => /\ trace[k].confidence = argv[trace[k].pid].confidence
         /\ trace[k].grayscale = argv[trace[k].pid].grayscale

IsMiss(e) == e.op = "locate" /\ ~e.found

\* the idx-th entry of p's sequence has an action other than a Sleep
HasNonSleepAction(p, idx) ==
  IF argv[p].command = "input"
  THEN \E sub \in 1..Len(parsed[p][idx].action) :
         parsed[p][idx].action[sub].action # SLEEP
  ELSE parsed[p][idx].action # SLEEP

\* C8: a query the Screen Locator answers with not-found is the last call
\* of its invocation, which has ended with status 1; the calls of the
\* earlier actions are in the trace, before it
LocatorMissIsFatal ==
  \A k \in 1..Len(trace) :
    IsMiss(trace[k])
      => /\ \A j \in (k + 1)..Len(trace) : trace[j].pid # trace[k].pid
         /\ pc[trace[k].pid] = "done"
         /\ exitCode[trace[k].pid] = 1
         /\ stack[trace[k].pid] = <<>>
         /\ \A idx \in 1..(trace[k].idx - 1) :
              HasNonSleepAction(trace[k].pid, idx)
                => \E j \in 1..(k - 1) :
                     trace[j].pid = trace[k].pid /\ trace[j].idx = idx

\* an input run missed the image of its second item, after the click of the
\* first and with a keyboard item still to come
MissBetweenActions ==
  \E k \in 2..Len(trace) :
    /\ IsMiss(trace[k])
    /\ argv[trace[k].pid].command = "input"
    /\ trace[k].idx = 2
    /\ \E j \in 1..(k - 1) : trace[j].op = "click" /\ trace[j].idx = 1
    /\ Len(parsed[trace[k].pid]) = 3
    /\ parsed[trace[k].pid][3].type = KEYBOARD

\* the only token of the mouse command's action string, when it has one
OnlyToken(args) ==
  IF args.command = "mouse" /\ Len(SplitWs(args.actions)) = 1
  THEN SplitWs(args.actions)[1]
  ELSE <<>>

\* C9: a mouse action string that is one click keyword, in any case, parses
\* to the click of the canonical button with no target, and the run clicks
\* where the pointer is
ClickKeywordInAnyCase ==
  \A p \in Procs :
    (/\ Upper(OnlyToken(argv[p])) \in MOUSE_CLICK_ACTIONS_LIST
     /\ pc[p] \in {"parsed", "running", "done"}
     /\ ArgsValid(argv[p]))
      => /\ parsed[p]
              = <<Act(validate_mouse_action(OnlyToken(argv[p])).v, <<>>)>>
         /\ pc[p] = "done"
              => /\ exitCode[p] = 0
                 /\ \E k \in 1..Len(trace) :
                      /\ trace[k].pid = p
                      /\ trace[k].op = "click"
                      /\ <<trace[k].x, trace[k].y>> = PointerBefore(k)

\* the mouse command's action string has the sleep keyword as a whole token
HasBareSleepToken(args) ==
  /\ args.command = "mouse"
  /\ \E k \in 1..Len(SplitWs(args.actions)) :
       Upper(SplitWs(args.actions)[k]) \in MOUSE_SLEEP_ACTIONS_LIST

\* C10: a mouse action string with the sleep keyword alone as a token is
\* rejected by the parser, whatever files exist: no action list comes out
\* of it and nothing is executed
BareSleepIsRejected ==
  \A p \in Procs :
    HasBareSleepToken(argv[p])
      => /\ pc[p] \notin {"parsed", "running"}
         /\ parsed[p] = <<>>
         /\ ~HasEvents(p)

\* the items of the action string as the command's parser splits it
TokensOf(args) ==
  IF args.command = "mouse" THEN SplitWs(args.actions)
  ELSE IF args.command \in {"keyboard", "input"} /\ ShlexSplit(args.actions).ok
  THEN ShlexSplit(args.actions).v
  ELSE <<>>

\* the fields are a sleep keyword and a number below zero
\* a sleep token whose number is a minus sign before a number above zero
IsNegativeSleep(fields) ==
  /\ Len(fields) = 2
  /\ Upper(fields[1]) \in MOUSE_SLEEP_ACTIONS_LIST
  /\ StartsWith(fields[2], "-")
  /\ FloatOfParts(FALSE, SplitOn(Tail1(fields[2]), ".")).ok
  /\ FloatOfParts(FALSE, SplitOn(Tail1(fields[2]), ".")).v > 0

NegativeSleepAt(tokens, k) == IsNegativeSleep(SplitOn(tokens[k], ","))

HasNegativeSleep(tokens) ==
  \E k \in 1..Len(tokens) : NegativeSleepAt(tokens, k)

\* C11: an action string with a sleep token S,d or SLEEP,d with d < 0, at
\* any position and for any of the three commands, is rejected: the run
\* ends with status 1, no action list comes out of the parser and no call
\* is made
NegativeSleepIsRejected ==
  \A p \in Procs :
    HasNegativeSleep(TokensOf(argv[p]))
      => /\ pc[p] \notin {"parsed", "running"}
         /\ parsed[p] = <<>>
         /\ ~HasEvents(p)
         /\ pc[p] = "done" => exitCode[p] = 1

NegativeSleepSecond(tokens) ==
  Len(tokens) = 2 /\ NegativeSleepAt(tokens, 2) /\ ~NegativeSleepAt(tokens, 1)

\* an input run whose options are in range ended at the parser because the
\* second of its two items is S,-1
NegativeSleepAfterValidItem ==
  /\ argv[1].command = "input"
  /\ ArgsValid(argv[1])
  /\ NegativeSleepSecond(TokensOf(argv[1]))
  /\ ParseInputToken(TokensOf(argv[1])[1], <<>>, <<>>, DOMAIN files).status
       = "ok"
  /\ pc[1] = "done"

\* C12: every KEY action the keyboard parser returns has presses >= 1 (a
\* presses field of 0 or less is rejected, an absent one stands for 1)
KeyPressesArePositive ==
  \A p \in Procs :
    argv[p].command = "keyboard"
      => \A idx \in 1..Len(parsed[p]) :
           parsed[p][idx].action = KEY => parsed[p][idx].args[2].v >= 1

\* the combined list the input command should produce for one item that
\* the mouse parser accepts as the action r.v
AsMouseItem(r) == <<Combined(MOUSE, <<r.v>>)>>

OnlyItemIsMouseToken(args, fls) ==
  /\ args.command = "input"
  /\ Len(TokensOf(args)) = 1
  /\ ParseMouseToken(TokensOf(args)[1], args.images_path, fls).ok

\* C13: an item that the mouse parser accepts is accepted by the input
\* parser too, as the same action under the domain MOUSE (a bare coordinate
\* pair included)
InputAcceptsMouseTokens ==
  \A p \in Procs :
    (/\ OnlyItemIsMouseToken(argv[p], DOMAIN files)
     /\ ArgsValid(argv[p])
     /\ pc[p] \in {"parsed", "running", "done"})
      => parsed[p]
           = AsMouseItem(ParseMouseToken(TokensOf(argv[p])[1],
                                         argv[p].images_path, DOMAIN files))

IsChordSleep(e) == e.op = "sleep" /\ e.line = 556

\* the calls of the step are presses chords with a sleep between each two
ChordsWithSleepsBetween(p, idx, sub, presses) ==
  /\ Cardinality({k \in StepEvents(p, idx, sub) : trace[k].op = "hotkey"})
       = presses
  /\ Cardinality({k \in StepEvents(p, idx, sub) : IsChordSleep(trace[k])})
       = presses - 1
  /\ \A k \in StepEvents(p, idx, sub) :
       IsChordSleep(trace[k])
         => /\ (k - 1) \in StepEvents(p, idx, sub)
            /\ trace[k - 1].op = "hotkey"
            /\ (k + 1) \in StepEvents(p, idx, sub)
            /\ trace[k + 1].op = "hotkey"

IsChord(a) == a.action = KEY /\ Len(a.args[1].v) > 1 /\ a.args[2].v >= 1

\* C14: in a completed keyboard run with a press interval above 0, a chord
\* with presses = n is issued n times with n - 1 sleeps of the interval,
\* each between two chords, and none after the last
ChordSleepsOnlyBetweenRepeats ==
  \A p \in Procs :
    (/\ argv[p].command = "keyboard"
     /\ argv[p].press_interval > 0
     /\ pc[p] = "done" /\ exitCode[p] = 0)
      => \A idx \in 1..Len(parsed[p]) :
           IsChord(parsed[p][idx])
             => ChordsWithSleepsBetween(p, idx, 0, parsed[p][idx].args[2].v)

\* the calls made for one action, in order
StepCalls(p, idx, sub) ==
  SelectSeq(trace,
            LAMBDA e : e.pid = p /\ e.idx = idx /\ e.sub = sub
                         /\ ~IsGlobalSleep(e))

\* the text that xdotool's runs and Return keystrokes put together
RECURSIVE Rejoined(_)
Rejoined(calls) ==
  IF Len(calls) = 0 THEN <<>>
  ELSE (CASE Head(calls).op = "xdotool_type" -> Head(calls).text
          [] Head(calls).op = "xdotool_key" -> <<"\n">>
          [] OTHER -> <<>>)
         \o Rejoined(Tail(calls))

HasLineBreak(text) == \E k \in 1..Len(text) : IsLineBreak(text[k])

\* the delivery of text that is required for the given typing interval
DeliveredAsRequired(calls, text, interval) ==
  IF interval < MIN_TYPING_INTERVAL
  THEN /\ Len(calls) = 2
       /\ calls[1].op = "copy" /\ calls[1].text = text
       /\ calls[2].op = "hotkey" /\ calls[2].keys = <<"ctrl", "v">>
  ELSE /\ \A k \in 1..Len(calls) :
            \/ calls[k].op = "xdotool_key"
            \/ calls[k].op = "xdotool_type" /\ ~HasLineBreak(calls[k].text)
       /\ Rejoined(calls) = text

\* C15: in a completed keyboard run the text of every TYPE action is
\* delivered as required: at or above the minimum interval as runs without
\* line-break characters and Return keystrokes that join back to the text,
\* below it as one clipboard copy and one paste
TextIsStreamedByLines ==
  \A p \in Procs :
    (argv[p].command = "keyboard" /\ pc[p] = "done" /\ exitCode[p] = 0)
      => \A idx \in 1..Len(parsed[p]) :
           parsed[p][idx].action = TYPE
             => DeliveredAsRequired(StepCalls(p, idx, 0),
                                    parsed[p][idx].args[1].v,
                                    argv[p].typing_interval)

\* the calls of the step that trace' adds after the read at position k
CallsAfterRead(k) ==
  SelectSeq(SubSeq(trace', k + 1, Len(trace')), LAMBDA e : ~IsGlobalSleep(e))

\* the calls deliver the text, by clipboard or as runs and Return keystrokes
Delivers(calls, text, interval) ==
  IF interval < MIN_TYPING_INTERVAL
  THEN Len(calls) = 2 /\ calls[1].op = "copy" /\ calls[1].text = text
  ELSE Rejoined(calls) = text

\* the step that reads path at position k of trace' types the text the
\* file has in this very step, or aborts when the file is not there: the
\* read is then the last call, the run is over with status 1, and the calls
\* made before it are kept
ReadsLive(k, path, p) ==
  IF path \in DOMAIN files
  THEN Delivers(CallsAfterRead(k), files[path], argv[p].typing_interval)
  ELSE /\ k = Len(trace')
       /\ pc'[p] = "done"
       /\ exitCode'[p] = 1
       /\ stack'[p] = <<>>
       /\ SubSeq(trace', 1, Len(trace)) = trace

\* C16: a TYPEFILE action types the content its file has at the moment the
\* action executes, whatever it was when the string was parsed, and a file
\* that is gone by then aborts the run at that action
TypeFileReadsAtExecution ==
  [][\A k \in (Len(trace) + 1)..Len(trace') :
       trace'[k].op = "read" => ReadsLive(k, trace'[k].path, trace'[k].pid)]_vars

\* a keyboard run typed the text its file was written over with, after an
\* earlier action of the same run
TypedRewrittenFile ==
  \E k \in 2..Len(trace) :
    /\ trace[k - 1].op = "read"
    /\ trace[k].op = "xdotool_type"
    /\ trace[k].text = NewText
    /\ trace[k].idx > 1
    /\ argv[trace[k].pid].command = "keyboard"

HasCall(p, idx, sub, ops) ==
  \E k \in StepEvents(p, idx, sub) : trace[k].op \in ops

\* the action at the given position was carried out to its end
Effected(p, idx, sub, a) ==
  CASE a.action = SLEEP ->
         /\ IsLiteralSleepAction(a)
         /\ a.args[1].v = 0 \/ HasCall(p, idx, sub, {"sleep"})
    [] a.action = MOVE -> HasCall(p, idx, sub, {"moveTo"})
    [] a.action \in DOMAIN BTN_MAPPING -> HasCall(p, idx, sub, {"click"})
    [] a.action = KEY ->
         a.args[2].v <= 0 \/ HasCall(p, idx, sub, {"press", "hotkey"})
    [] a.action = TYPE ->
         a.args[1].v = <<>> \/ HasCall(p, idx, sub, {"xdotool_type", "copy"})
    [] a.action = TYPEFILE -> HasCall(p, idx, sub, {"xdotool_type", "copy"})
    [] OTHER -> FALSE

\* every action of p's sequence was carried out to its end
ExecutedAll(p) ==
  \A idx \in 1..Len(parsed[p]) :
    IF argv[p].command = "input"
    THEN \A sub \in 1..Len(parsed[p][idx].action) :
           Effected(p, idx, sub, parsed[p][idx].action[sub])
    ELSE Effected(p, idx, 0, parsed[p][idx])

\* the parser of p's command did not return a list
ParseFailedFor(p) ==
  /\ parsed[p] = <<>>
  /\ \/ Len(TokensOf(argv[p])) > 0
     \/ /\ argv[p].command \in {"keyboard", "input"}
        /\ ~ShlexSplit(argv[p].actions).ok

\* p looked an image up in vain, or read a file that is not there
LookupFailedFor(p) ==
  \E k \in 1..Len(trace) :
    /\ trace[k].pid = p
    /\ \/ IsMiss(trace[k])
       \/ trace[k].op = "read" /\ k = Len(trace) /\ exitCode[p] = 1

\* the keyboard parser returned a KEY action for a presses field below 1,
\* which the grammar does not allow
HasRejectablePresses(p) ==
  /\ argv[p].command = "keyboard"
  /\ \E idx \in 1..Len(parsed[p]) :
       parsed[p][idx].action = KEY /\ parsed[p][idx].args[2].v < 1

\* C17: a run ends with status 1 whenever an option is out of range, a
\* token fails to parse (or is one the grammar rejects), or a file or image
\* lookup fails, and it ends with status 0 exactly when every action of the
\* sequence was carried out
ExitStatusTellsOutcome ==
  \A p \in Procs :
    pc[p] = "done"
      => /\ (\/ ~ArgsValid(argv[p])
             \/ ParseFailedFor(p)
             \/ HasRejectablePresses(p)
             \/ LookupFailedFor(p))
              => exitCode[p] = 1
         /\ exitCode[p] = 0
              <=> (ArgsValid(argv[p]) /\ ~ParseFailedFor(p) /\ ExecutedAll(p))

\* the decimal digits of a natural number
RECURSIVE NatStr(_)
NatStr(n) ==
  IF n < 10 THEN <<DigitChars[n + 1]>>
  ELSE NatStr(n \div 10) \o <<DigitChars[(n % 10) + 1]>>

IntStr(n) == IF n < 0 THEN <<"-">> \o NatStr(0 - n) ELSE NatStr(n)

\* the fraction digits of a number of milliseconds, as Python prints them
FracStr(ms) ==
  IF ms % 10 # 0 THEN SubSeq(NatStr(1000 + ms), 2, 4)
  ELSE IF ms % 100 # 0 THEN SubSeq(NatStr(1000 + ms), 2, 3)
  ELSE SubSeq(NatStr(1000 + ms), 2, 2)

\* a number of seconds, held in milliseconds, as Python prints a float
FloatStr(ms) == NatStr(ms \div 1000) \o <<".">> \o FracStr(ms % 1000)

RECURSIVE JoinWith(_, _)
JoinWith(parts, sep) ==
  IF Len(parts) = 0 THEN <<>>
  ELSE IF Len(parts) = 1 THEN parts[1]
  ELSE parts[1] \o <<sep>> \o JoinWith(Tail(parts), sep)

\* an argument of an action as it is written in a token
ArgStr(v) ==
  CASE v.t = "int" -> IntStr(v.v)
    [] v.t = "float" -> FloatStr(v.v)
    [] v.t = "list" -> JoinWith(v.v, "+")
    [] OTHER -> v.v

\* the canonical token of an action: the full keyword, then the arguments
CanonicalToken(a) ==
  JoinWith(<<a.action>> \o [k \in 1..Len(a.args) |-> ArgStr(a.args[k])], ",")

\* the full keyword each keyboard alias stands for
KeyboardFullKeyword == (K :> KEY) @@ (T :> TYPE) @@ (TF :> TYPEFILE) @@ (S :> SLEEP)

\* the fields with the alias in the first one replaced by its full keyword
WithFullKeyword(fields, full) ==
  IF Upper(fields[1]) \in DOMAIN full
  THEN JoinWith(<<full[Upper(fields[1])]>> \o Tail(fields), ",")
  ELSE JoinWith(fields, ",")

\* the mouse parser gives the action back for its canonical token, and the
\* same result for a token and for the token with the full keyword
MouseTokenStable(tok, images_path, fls) ==
  /\ ParseMouseToken(tok, images_path, fls).ok
       => ParseMouseToken(
            CanonicalToken(ParseMouseToken(tok, images_path, fls).v),
            images_path, fls)
            = ParseMouseToken(tok, images_path, fls)
  /\ ParseMouseToken(WithFullKeyword(SplitFirst(tok, ","), MOUSE_ACTIONS_DICT),
                     images_path, fls)
       = ParseMouseToken(tok, images_path, fls)

KeyboardTokenStable(tok, files_path, fls) ==
  /\ ParseKeyboardToken(tok, files_path, fls).status = "ok"
       => ParseKeyboardToken(
            CanonicalToken(ParseKeyboardToken(tok, files_path, fls).v),
            files_path, fls)
            = ParseKeyboardToken(tok, files_path, fls)
  /\ ParseKeyboardToken(
       WithFullKeyword(SplitFirst(tok, ","), KeyboardFullKeyword),
       files_path, fls)
       = ParseKeyboardToken(tok, files_path, fls)

\* C18: for every token of a mouse or keyboard action string, parsing the
\* canonical token of the action it parses to gives the same action again,
\* and the token written with the alias and with the full keyword parse to
\* the same result
CanonicalTokensReparse ==
  \A p \in Procs :
    \A k \in 1..Len(TokensOf(argv[p])) :
      CASE argv[p].command = "mouse" ->
             MouseTokenStable(TokensOf(argv[p])[k], argv[p].images_path,
                              DOMAIN files)
        [] argv[p].command = "keyboard" ->
             KeyboardTokenStable(TokensOf(argv[p])[k], argv[p].files_path,
                                 DOMAIN files)
        [] OTHER -> TRUE

\* the item is one token of the mouse or keyboard language: a keyboard item,
\* or a mouse item that parse_mouse_actions does not split further
IsOneToken(args, tok) ==
  \/ args.command # "input"
  \/ /\ Len(SplitFirst(tok, ",")) > 1
     /\ Upper(SplitFirst(tok, ",")[1]) \notin MOUSE_ACTIONS_LIST
  \/ Len(SplitWs(tok)) = 1

\* the action string of p was parsed, and each of its items is one token
ParsedValidString(p) ==
  /\ pc[p] \in {"parsed", "running", "done"}
  /\ parsed[p] # <<>>
  /\ \A k \in 1..Len(TokensOf(argv[p])) :
       IsOneToken(argv[p], TokensOf(argv[p])[k])

\* what the parser of the command makes of one token on its own
ParseOfToken(args, tok, fls) ==
  CASE args.command = "mouse" ->
         ParseMouseToken(tok, args.images_path, fls).v
    [] args.command = "keyboard" ->
         ParseKeyboardToken(tok, args.files_path, fls).v
    [] OTHER ->
         ParseInputToken(tok, args.images_path, args.files_path, fls).v

\* the collaborator calls an action of the given keyword can make
OpsOf(keyword) ==
  CASE keyword = SLEEP -> {"sleep"}
    [] keyword = MOVE -> {"position", "locate", "moveTo", "sleep"}
    [] keyword \in DOMAIN BTN_MAPPING ->
         {"position", "locate", "moveTo", "click", "sleep"}
    [] keyword = KEY -> {"press", "hotkey", "sleep"}
    [] keyword = TYPE ->
         {"xdotool_type", "xdotool_key", "copy", "hotkey", "sleep"}
    [] keyword = TYPEFILE ->
         {"read", "xdotool_type", "xdotool_key", "copy", "hotkey", "sleep"}
    [] OTHER -> {}

\* the call belongs to the action its tags name: the sleep of line 607 of
\* an input item, or a call the action at that position can make
CallOfItsAction(p, e) ==
  /\ e.idx \in 1..Len(parsed[p])
  /\ IF argv[p].command = "input" /\ e.sub = 0
     THEN e.op = "sleep" /\ e.line = 607
     ELSE e.op \in OpsOf(ActionAt(p, e.idx, e.sub).action)

\* no call of an action comes after a call of a later action, and the sleep
\* after an input item is the last call of that item
InOrder(e1, e2) ==
  /\ e1.idx <= e2.idx
  /\ e1.idx = e2.idx /\ e1.sub = 0 => e2.sub = 0

\* C19: a parsed action string of n tokens gives n actions, the k-th being
\* the parse of the k-th token, and every collaborator call of action k,
\* its sleep after the action included, precedes every call of action k+1,
\* for the mouse, keyboard and input commands alike
ActionsRunInTokenOrder ==
  \A p \in Procs :
    ParsedValidString(p)
      => /\ Len(parsed[p]) = Len(TokensOf(argv[p]))
         /\ File_f \in DOMAIN files
              => \A k \in 1..Len(parsed[p]) :
                   parsed[p][k]
                     = ParseOfToken(argv[p], TokensOf(argv[p])[k],
                                    DOMAIN files)
         /\ \A i \in 1..Len(trace) :
              trace[i].pid = p
                => /\ CallOfItsAction(p, trace[i])
                   /\ \A j \in (i + 1)..Len(trace) :
                        trace[j].pid = p => InOrder(trace[i], trace[j])

\* an input run has made the calls of an item of one domain, slept after
\* it, and then made a call for the next item, which is of the other domain
ItemsOfBothDomainsRanInOrder ==
  \E p \in Procs :
    /\ argv[p].command = "input"
    /\ ParsedValidString(p)
    /\ Len(parsed[p]) > 1
    /\ parsed[p][1].type # parsed[p][2].type
    /\ \E i, j \in 1..Len(trace) :
         /\ i < j
         /\ trace[i].pid = p /\ trace[i].idx = 1
         /\ trace[i].op = "sleep" /\ trace[i].line = 607
         /\ trace[j].pid = p /\ trace[j].idx = 2
         /\ \E h \in 1..(i - 1) : trace[h].pid = p /\ trace[h].idx = 1

\* the last collaborator call of p was a locator query that found nothing
LastCallIsMiss(p) ==
  \E k \in 1..Len(trace) :
    /\ trace[k].pid = p
    /\ IsMiss(trace[k])
    /\ \A j \in (k + 1)..Len(trace) : trace[j].pid # p

\* C20: a mouse run whose action string the parser accepted ends with
\* status 1 only after a locator query that found nothing, and then no call
\* follows the query; every other such run ends with status 0 having
\* executed each action
MouseAbortsOnlyOnMiss ==
  \A p \in Procs :
    /\ argv[p].command = "mouse"
    /\ pc[p] = "done"
    /\ ArgsValid(argv[p])
    /\ parse_mouse_actions(argv[p].actions, argv[p].images_path,
                           DOMAIN files).status = "ok"
    => IF exitCode[p] = 1 THEN LastCallIsMiss(p)
       ELSE exitCode[p] = 0 /\ ExecutedAll(p)

\* p is inside input_cmd, between its entry and its return
InsideInput(p) == argv[p].command = "input" /\ pc[p] = "running"

\* C21: from the entry of input_cmd to its return the invocation owns the
\* lock file: the nested acquisitions of mouse_cmd and keyboard_cmd find
\* the lock held by their own object and their releases only lower its
\* count, so no other invocation is inside an executor and no call of
\* another invocation lies between two calls of the input sequence
InputHoldsLockThroughout ==
  /\ \A p \in Procs :
       InsideInput(p)
         => /\ lockOwner = p
            /\ lockCounter[p] >= 1
            /\ \A q \in Procs \ {p} : stack[q] = <<>> /\ lockCounter[q] = 0
  /\ \A i, j, k \in 1..Len(trace) :
       /\ i < j /\ j < k
       /\ argv[trace[i].pid].command = "input"
       /\ trace[i].pid = trace[k].pid
       => trace[j].pid = trace[i].pid

\* an input invocation is back in input_cmd after the call for its first
\* item returned, its calls made, while the other invocation has parsed its
\* string and waits for the lock
InputBetweenItemsOtherWaits ==
  \E p, q \in Procs :
    /\ p # q
    /\ InsideInput(p)
    /\ Len(stack[p]) = 1
    /\ stack[p][1].i = 2
    /\ HasEvents(p)
    /\ pc[q] = "parsed"
    /\ ~LockAcquirable(q)

\* the action whose iteration made the call
ActionOfCall(e) == ActionAt(e.pid, e.idx, e.sub)

\* C22: no moveTo call is made for a click on the current position (a
\* button action without arguments), whatever the duration is
ClickInPlaceNeverMoves ==
  \A k \in 1..Len(trace) :
    trace[k].op = "moveTo"
      => ~(/\ ActionOfCall(trace[k]).action \in DOMAIN BTN_MAPPING
           /\ ActionOfCall(trace[k]).args = <<>>)

\* a KEY item: the keyword K or KEY in any case, a combo, and possibly a
\* number of presses written in digits
IsKeyItem(res) ==
  /\ Len(res) = 2
  /\ Upper(res[1]) \in {K, KEY}
  /\ Len(SplitOn(res[2], ",")) \in {1, 2}
  /\ Len(SplitOn(res[2], ",")) = 2
       => /\ SplitOn(res[2], ",")[2] # <<>>
          /\ IsDigit(SplitOn(res[2], ",")[2])

\* the parts of the combo between the plus signs, each in lower case
ComboKeys(parts) == [k \in 1..Len(parts) |-> Lower(parts[k])]

\* the KeyPress the item stands for
KeyPressOf(fields) ==
  Act(KEY, <<ListV(ComboKeys(SplitOn(fields[1], "+"))),
             IntV(IF Len(fields) = 1 THEN 1 ELSE DigitsValue(fields[2]))>>)

KeyPressOfItem(tok) == KeyPressOf(SplitOn(SplitFirst(tok, ",")[2], ","))

\* the k-th action of the parsed sequence of p
ParsedActionAt(p, k) ==
  IF argv[p].command = "input" THEN parsed[p][k].action[1] ELSE parsed[p][k]

\* C23: a KEY item K,combo[,presses], the keyword in any case, parses to
\* the KEY action whose keys are the parts of the combo between the plus
\* signs, in order and in lower case, and whose presses is the number
\* given, or 1 when none is given
KeyItemParsesToKeyPress ==
  \A p \in Procs :
    argv[p].command \in {"keyboard", "input"}
      => \A k \in 1..Len(TokensOf(argv[p])) :
           IsKeyItem(SplitFirst(TokensOf(argv[p])[k], ","))
             => /\ ParseKeyboardToken(TokensOf(argv[p])[k],
                                      argv[p].files_path, DOMAIN files)
                     = TokenOk(KeyPressOfItem(TokensOf(argv[p])[k]))
                /\ parsed[p] # <<>>
                     => ParsedActionAt(p, k)
                          = KeyPressOfItem(TokensOf(argv[p])[k])

\* a string was parsed that holds a KEY item with the keyword in lower
\* case, a key written with a capital, and three presses
LowerCaseKeyItemParsed ==
  \E p \in Procs :
    /\ argv[p].command = "keyboard"
    /\ parsed[p] # <<>>
    /\ \E k \in 1..Len(TokensOf(argv[p])) :
         /\ IsKeyItem(SplitFirst(TokensOf(argv[p])[k], ","))
         /\ SplitFirst(TokensOf(argv[p])[k], ",")[1] = <<"k", "e", "y">>
         /\ parsed[p][k].args[1].v = <<<<"e", "n", "t", "e", "r">>>>
         /\ parsed[p][k].args[2].v = 3

\* an option of the command is out of range: the sleep, for the mouse and
\* input commands the duration, the double-click interval and the
\* confidence, for the keyboard and input commands the two intervals
OptionOutOfRange(args) ==
  \/ args.sleep < 0
  \/ /\ args.command \in {"mouse", "input"}
     /\ \/ args.duration < 0
        \/ args.doubleclick_interval < 0
        \/ args.confidence < 0
        \/ args.confidence > 1000
  \/ /\ args.command \in {"keyboard", "input"}
     /\ \/ args.typing_interval < 0
        \/ args.press_interval < 0

\* the typing interval is below the minimum, and nothing is out of range
OnlyTypingIntervalLow(args) ==
  /\ args.command \in {"keyboard", "input"}
  /\ 0 <= args.typing_interval
  /\ args.typing_interval < MIN_TYPING_INTERVAL
  /\ ~OptionOutOfRange(args)

\* C24: an invocation with an option out of range ends with status 1
\* straight from the start: it never gets to the parser, holds no lock and
\* makes no call; one whose typing interval is only below the minimum goes
\* on to the parser and, when its string parses, to the executor
OptionsCheckedFirst ==
  \A p \in Procs :
    /\ OptionOutOfRange(argv[p])
         => /\ pc[p] \in {"start", "done"}
            /\ pc[p] = "done" => exitCode[p] = 1
            /\ parsed[p] = <<>>
            /\ stack[p] = <<>>
            /\ lockCounter[p] = 0
            /\ lockOwner # p
            /\ ~HasEvents(p)
    /\ /\ OnlyTypingIntervalLow(argv[p])
       /\ pc[p] = "done"
       /\ TokensOf(argv[p]) # <<>>
       /\ ParseCommand(argv[p], DOMAIN files).status = "ok"
       => parsed[p] # <<>>

\* an input invocation whose press interval is negative, its other options
\* in range, has ended
NegativePressIntervalEnded ==
  \E p \in Procs :
    /\ argv[p].command = "input"
    /\ argv[p].press_interval < 0
    /\ check_mouse_args(argv[p])
    /\ argv[p].sleep >= 0
    /\ pc[p] = "done"

\* the actions of the mouse language in the parsed sequence of p
MouseActionsOf(p) ==
  IF argv[p].command = "mouse" THEN {parsed[p][k] : k \in 1..Len(parsed[p])}
  ELSE IF argv[p].command = "input"
  THEN UNION {{parsed[p][k].action[j] : j \in 1..Len(parsed[p][k].action)} :
                k \in {h \in 1..Len(parsed[p]) : parsed[p][h].type = MOUSE}}
  ELSE {}

\* C25: every SLEEP action the mouse parser returns has exactly one
\* argument, a number of seconds that is not negative (a token S,x,y is
\* rejected)
MouseSleepHasOneNumber ==
  \A p \in Procs :
    \A a \in MouseActionsOf(p) :
      a.action = SLEEP => IsLiteralSleepAction(a) /\ a.args[1].v >= 0

\* the pointer calls of an action of the mouse language, in order
PointerOps(a, duration) ==
  IF a.action = MOVE THEN <<"moveTo">>
  ELSE IF duration > 0 THEN <<"moveTo", "click">>
  ELSE <<"click">>

\* the point the action is about, from the answer e of the one query made
\* for it: the centre of the image, the pointer's position, or the fields
\* of the coordinate target taken from that position
ResolvedPoint(e, a) ==
  CASE e.op = "locate" -> <<screen[e.img].x, screen[e.img].y>>
    [] Len(a.args) = 0 -> <<e.x, e.y>>
    [] OTHER -> <<ExpectedCoordinate(a.args[1], e.x),
                  ExpectedCoordinate(a.args[2], e.y)>>

\* the pointer call c is at the point, a move with the duration, a click
\* with the action's button, twice with the double-click interval for a
\* double click and once otherwise
PointerCallAt(c, pt, a, args) ==
  /\ c.x = pt[1]
  /\ c.y = pt[2]
  /\ c.op = "moveTo" => c.duration = args.duration
  /\ c.op = "click"
       => /\ c.button = BTN_MAPPING[a.action]
          /\ c.clicks = (IF a.action = DOUBLELEFT THEN 2 ELSE 1)
          /\ c.interval = (IF a.action = DOUBLELEFT
                           THEN args.doubleclick_interval ELSE 0)

\* the calls of one action: the query e first, then the action's pointer
\* calls and no other call, each at the point the query resolved
StepAsResolved(calls, e, a, args) ==
  /\ calls[1] = e
  /\ [i \in 1..(Len(calls) - 1) |-> calls[i + 1].op]
       = (IF IsMiss(e) THEN <<>> ELSE PointerOps(a, args.duration))
  /\ \A i \in 2..Len(calls) :
       PointerCallAt(calls[i], ResolvedPoint(e, a), a, args)

\* C26: for every action of the mouse language that is not a sleep, one
\* query resolves the target before any pointer call; a MOVE makes one
\* moveTo at that point and no click, a click with duration 0 one click
\* there and no moveTo, a click with a duration above 0 one moveTo and then
\* one click at the same point; a double click is one click call with
\* clicks 2 and the double-click interval, any other click has clicks 1
TargetResolvedOnce ==
  \A k \in 1..Len(trace) :
    trace[k].op \in {"position", "locate"}
      => StepAsResolved(StepCalls(trace[k].pid, trace[k].idx, trace[k].sub),
                        trace[k], ActionOfCall(trace[k]),
                        argv[trace[k].pid])

\* a click on a relative target with a duration above 0: the move and the
\* click went to the same point, the delta added once to where the pointer
\* was
RelativeClickMovedThenClicked ==
  \E k \in 2..Len(trace) :
    /\ trace[k].op = "click"
    /\ trace[k - 1].op = "moveTo"
    /\ trace[k - 1].duration > 0
    /\ ActionOfCall(trace[k]).args # <<>>
    /\ ActionOfCall(trace[k]).args[1] = StrV(<<"+", "3">>)
    /\ trace[k].x = InitialCursor[1] + 3
    /\ trace[k - 1].x = trace[k].x
    /\ trace[k - 1].y = trace[k].y

\* the calls of mouse_cmd for the actions from the i-th on, the pointer
\* being at cur: the loop of lines 482-523, which an exit or an exception
\* ends
RECURSIVE RunMouse(_, _, _, _, _)
RECURSIVE ThenRunMouse(_, _, _, _, _)
RunMouse(actions, i, par, cur, scr) ==
  IF i > Len(actions) THEN <<>>
  ELSE ThenRunMouse(MouseIter(actions[i], i, Len(actions), par, cur, scr),
                    actions, i, par, scr)

ThenRunMouse(r, actions, i, par, scr) ==
  IF r.status = "ok"
  THEN r.events \o RunMouse(actions, i + 1, par, r.cursor, scr)
  ELSE r.events

\* the same for keyboard_cmd, lines 536-578
RECURSIVE RunKeyboard(_, _, _, _, _)
RECURSIVE ThenRunKeyboard(_, _, _, _, _)
RunKeyboard(actions, i, par, cur, fls) ==
  IF i > Len(actions) THEN <<>>
  ELSE ThenRunKeyboard(KeyboardIter(actions[i], i, Len(actions), par, cur,
                                    fls),
                       actions, i, par, fls)

ThenRunKeyboard(r, actions, i, par, fls) ==
  IF r.status = "ok"
  THEN r.events \o RunKeyboard(actions, i + 1, par, r.cursor, fls)
  ELSE r.events

\* a call without the marks of who made it and from which line
PlainCall(e) == [f \in DOMAIN e \ {"pid", "idx", "sub", "line"} |-> e[f]]

PlainCalls(events) == [k \in 1..Len(events) |-> PlainCall(events[k])]

\* the calls of p so far
CallsOf(p) == SelectSeq(trace, LAMBDA e : e.pid = p)

IsPrefix(s, t) == Len(s) <= Len(t) /\ SubSeq(t, 1, Len(s)) = s

\* the input sequence of p holds one action per item, each an action of
\* the one domain or a sleep (which the input parser hands to the mouse
\* parser)
SingleDomainInput(p, type) ==
  /\ argv[p].command = "input"
  /\ parsed[p] # <<>>
  /\ \A k \in 1..Len(parsed[p]) :
       /\ Len(parsed[p][k].action) = 1
       /\ \/ parsed[p][k].type = type
          \/ IsLiteralSleepAction(parsed[p][k].action[1])

\* the actions of the items as one list
AsOneList(items) == [k \in 1..Len(items) |-> items[k].action[1]]

\* the calls made so far are the first calls of the reference run, and all
\* of them once the invocation has ended
SameCallsAs(p, reference) ==
  /\ IsPrefix(PlainCalls(CallsOf(p)), PlainCalls(reference))
  /\ pc[p] = "done" => PlainCalls(CallsOf(p)) = PlainCalls(reference)

\* C27: an input run over mouse actions only (keyboard actions only), one
\* action per item, makes the same calls and sleeps, in the same order and
\* with the same values, as mouse_cmd (keyboard_cmd) called by main with
\* the same actions as one list and the same options
InputRunsAsSingleDomain ==
  \A p \in Procs :
    /\ SingleDomainInput(p, MOUSE)
         => SameCallsAs(p, RunMouse(AsOneList(parsed[p]), 1,
                                    MainMouseCall(argv[p], <<>>).par,
                                    InitialCursor, screen))
    /\ SingleDomainInput(p, KEYBOARD) /\ files \in {FilesPlain, FilesOdd}
         => SameCallsAs(p, RunKeyboard(AsOneList(parsed[p]), 1,
                                       MainKeyboardCall(argv[p], <<>>).par,
                                       InitialCursor, files))

\* an input run of two mouse items has ended after a click, a sleep of the
\* global sleep time and a call for the second item
MouseInputRanWithSleepBetween ==
  \E p \in Procs :
    /\ SingleDomainInput(p, MOUSE)
    /\ Len(parsed[p]) = 2
    /\ pc[p] = "done"
    /\ \E i, j, k \in 1..Len(trace) :
         /\ i < j /\ j < k
         /\ trace[i].op = "click" /\ trace[i].idx = 1
         /\ IsGlobalSleep(trace[j]) /\ trace[j].idx = 1
         /\ trace[k].idx = 2

\* the parser's verdict on one token alone, with the files of FilesPlain
TokenStatus(args, tok) ==
  CASE args.command = "mouse" ->
         MouseItemOutcome(ParseMouseToken(tok, args.images_path,
                                          DOMAIN FilesPlain)).status
    [] args.command = "keyboard" ->
         ParseKeyboardToken(tok, args.files_path, DOMAIN FilesPlain).status
    [] OTHER ->
         ParseInputToken(tok, args.images_path, args.files_path,
                         DOMAIN FilesPlain).status

\* the action string cannot be parsed: the split fails or a token does
StringFails(args) ==
  \/ args.command \in {"keyboard", "input"} /\ ~ShlexSplit(args.actions).ok
  \/ \E k \in 1..Len(TokensOf(args)) :
       TokenStatus(args, TokensOf(args)[k]) # "ok"

\* C28: an invocation whose options are out of range or whose action
\* string cannot be parsed never waits for the lock and never holds it: it
\* makes no call and ends with status 1; an invocation that is before the
\* end of its parsing holds nothing, and the check of its options can be
\* made whoever holds the lock
FailsBeforeLock ==
  \A p \in Procs :
    /\ OptionOutOfRange(argv[p]) \/ StringFails(argv[p])
         => /\ pc[p] \in {"start", "validated", "done"}
            /\ pc[p] = "done" => exitCode[p] = 1
            /\ stack[p] = <<>>
            /\ lockCounter[p] = 0
            /\ lockOwner # p
            /\ ~HasEvents(p)
    /\ pc[p] \in {"start", "validated"}
         => /\ lockCounter[p] = 0
            /\ lockOwner # p
            /\ pc[p] = "start" => ENABLED Validate(p)

\* an invocation whose options are in range and whose string cannot be
\* parsed has ended while the other one is inside its executor, holding
\* the lock, its first calls made
FailedWhileOtherHoldsLock ==
  \E p, q \in Procs :
    /\ p # q
    /\ ~OptionOutOfRange(argv[p])
    /\ StringFails(argv[p])
    /\ pc[p] = "done"
    /\ pc[q] = "running"
    /\ lockOwner = q
    /\ HasEvents(q)

\* C29: with every invocation going on whenever it can, each of the
\* invocations ends; one whose string was parsed comes to own the lock;
\* while it waits for the lock it has no exit status and has made no call;
\* and an invocation inside an executor owns the lock, so that the nested
\* acquisition of an input item does not wait
EveryInvocationEnds ==
  /\ \A p \in Procs : <>(pc[p] = "done")
  /\ \A p \in Procs : (pc[p] = "parsed") ~> (lockOwner = p)
  /\ [](\A p \in Procs :
          /\ pc[p] = "parsed" => exitCode[p] = 0 - 1 /\ ~HasEvents(p)
          /\ pc[p] = "running" => lockOwner = p)

\* both invocations have ended after making calls, one of them an input
\* invocation that acquired the lock again for each of its items, the other
\* one having made its calls after the last call of the first
BothRanOneAfterTheOther ==
  \E p, q \in Procs :
    /\ p # q
    /\ pc[p] = "done" /\ pc[q] = "done"
    /\ argv[p].command = "input"
    /\ exitCode[p] = 0
    /\ HasEvents(p) /\ HasEvents(q)
    /\ trace[1].pid = p
    /\ trace[Len(trace)].pid = q

=============================================================================
